---------------------------- MODULE Spec2Model ----------------------------
(***************************************************************************)
(* Model of the generated-artifact pipeline of the educational video       *)
(* generator: src/manim_ai_generator.py (ManimAIGenerator) and its HTTP    *)
(* front end src/app.py.                                                   *)
(*                                                                         *)
(* Text is a sequence of one-character strings (topics) or a sequence of   *)
(* lexemes (generated Manim source); durations and times are whole         *)
(* seconds.  Each component has a specification of its own:                *)
(*   SpecDetect     detect_scene_type                                      *)
(*   SpecReconcile  the duration policy of add_audio_to_video              *)
(*   SpecLocate     the artifact scan of execute_manim                     *)
(*   SpecSanitize   _fix_generated_manim_code                              *)
(*   Spec           generate_video end to end over a small file system     *)
(*   SpecApi        POST /api/generate of app.py, or a direct call          *)
(*   SpecNarration  extract_narration                                      *)
(***************************************************************************)
EXTENDS Integers, Sequences, FiniteSets, TLC

VARIABLES
  \* detect_scene_type: the topic, the decision, the position.  Where the
  \* code has use_3d = None the position tells it (dpc = "start",
  \* pc = "detect" or "idle") and use_3d holds FALSE until it is assigned.
  topic, use_3d, dpc,
  \* duration policy of add_audio_to_video: the loaded durations, the two
  \* clips, target_duration, the position
  Dv, Da, video, audio, target_duration, rpc,
  \* artifact scan of execute_manim: the enumerated files, time.time(),
  \* the filtered list, the outcome, the position
  video_files, current_time, recent_videos, latest_video, lpc,
  \* _fix_generated_manim_code: the raw source, the text being rewritten,
  \* the next rewrite, the source after one pass and after two, the position
  src, code, fixno, once, twice, spc,
  \* generate_video end to end: the position, the files on disk, the clock,
  \* the attempt counters of the two retry loops, the narration text and
  \* what generate_video returned or raised
  pc, fs, clock, llm_attempt, load_attempt, narration, result,
  \* what the last generate_content call gave, what the last
  \* _call_gemini_with_retry returned, the runs of manim (how many, how the
  \* last one ended, its captured stderr)
  llm_last, response, manim,
  \* POST /api/generate: the position of the handler, the JSON body,
  \* the generation_status dictionary and the HTTP status code answered
  apc, data, generation_status, http,
  \* GET /api/download/<video_id>: the last answer (the id asked for, the
  \* HTTP status code and the file sent)
  download,
  \* jobs served at the same time by the one generator: the position of each
  \* job inside execute_manim, the job whose source the scratch file scene.py
  \* holds, the job whose source each renderer loaded, the job whose source
  \* the rendered EducationScene.mp4 shows and the one each job's copy shows
  jpc, scene_file, loaded, rendered_file, copied

detectVars == << topic, use_3d, dpc >>
reconVars  == << Dv, Da, video, audio, target_duration, rpc >>
locateVars == << video_files, current_time, recent_videos, latest_video, lpc >>

fixVars    == << src, code, fixno, once, twice, spc >>

llmVars    == << llm_attempt, llm_last, response >>
pipeVars   == << pc, fs, clock, llmVars, load_attempt, narration, result,
                 manim >>

apiVars    == << apc, data, generation_status, http, download >>

jobsVars   == << jpc, scene_file, loaded, rendered_file, copied >>

vars == << detectVars, reconVars, locateVars, fixVars, pipeVars, apiVars,
           jobsVars >>

\* A component that takes no part in a specification stays as constructed.
IdleDetect ==
  topic = << >> /\ use_3d = FALSE /\ dpc = "idle"
IdleReconcile ==
  /\ Dv = 0 /\ Da = 0 /\ video = "none" /\ audio = "none"
  /\ target_duration = 0 /\ rpc = "idle"
IdleLocate ==
  /\ video_files = << >> /\ current_time = 0 /\ recent_videos = << >>
  /\ latest_video = "none" /\ lpc = "idle"
IdleSanitize ==
  /\ src = << >> /\ code = << >> /\ fixno = 0
  /\ once = << >> /\ twice = << >> /\ spc = "idle"
IdlePipeline ==
  /\ pc = "idle" /\ fs = << >> /\ clock = 0 /\ llm_attempt = 0
  /\ load_attempt = 0 /\ narration = "none" /\ result = [status |-> "none"]
  /\ llm_last = [kind |-> "none"] /\ response = << >>
  /\ manim = [runs |-> 0, ended |-> "none", stderr |-> ""]

IdleApi ==
  /\ apc = "idle" /\ data = [kind |-> "none"]
  /\ generation_status = << >> /\ http = 0
  /\ download = [id |-> "none", code |-> 0, file |-> [kind |-> "absent"]]

IdleJobs ==
  /\ jpc = << >> /\ scene_file = 0 /\ loaded = << >>
  /\ rendered_file = 0 /\ copied = << >>

(***************************************************************************)
(* Generic helpers on sequences.                                           *)
(***************************************************************************)
Range(s) == { s[i] : i \in DOMAIN s }

\* Python's `k in s` for strings: k occurs as a contiguous slice of s.
Occurs(k, s) ==
  \E i \in 1..(Len(s) - Len(k) + 1) : SubSeq(s, i, i + Len(k) - 1) = k

RECURSIVE Flatten(_)
Flatten(ss) == IF ss = << >> THEN << >> ELSE Head(ss) \o Flatten(Tail(ss))

(***************************************************************************)
(* detect_scene_type (src/manim_ai_generator.py:54-81).                    *)
(***************************************************************************)
require_3d ==
  << <<"c","u","b","e">>,
     <<"s","p","h","e","r","e">>,
     <<"p","y","r","a","m","i","d">>,
     <<"c","o","n","e">>,
     <<"c","y","l","i","n","d","e","r">>,
     <<"3","d">>,
     <<"t","h","r","e","e"," ","d","i","m","e","n","s","i","o","n","a","l">>,
     <<"s","o","l","i","d">>,
     <<"v","o","l","u","m","e">>,
     <<"s","u","r","f","a","c","e">>,
     <<"r","o","t","a","t","i","o","n"," ","i","n"," ","s","p","a","c","e">>,
     <<"s","p","a","t","i","a","l">>,
     <<"d","i","m","e","n","s","i","o","n">>,
     <<"p","o","l","y","h","e","d","r","o","n">>,
     <<"p","r","i","s","m">>,
     <<"t","o","r","u","s">>,
     <<"g","e","o","m","e","t","r","y"," ","3","d">> >>

better_2d ==
  << <<"f","u","n","c","t","i","o","n">>,
     <<"g","r","a","p","h">>,
     <<"e","q","u","a","t","i","o","n">>,
     <<"c","h","a","r","t">>,
     <<"d","i","a","g","r","a","m">>,
     <<"f","l","o","w">>,
     <<"t","r","e","e">>,
     <<"n","e","t","w","o","r","k">>,
     <<"c","i","r","c","l","e">>,
     <<"s","q","u","a","r","e">>,
     <<"t","r","i","a","n","g","l","e">>,
     <<"p","e","r","c","e","n","t","a","g","e">>,
     <<"a","n","g","l","e">>,
     <<"a","l","g","e","b","r","a">>,
     <<"f","r","a","c","t","i","o","n">>,
     <<"r","a","t","i","o">>,
     <<"a","n","i","m","a","t","i","o","n">>,
     <<"s","t","e","p"," ","b","y"," ","s","t","e","p">> >>

TopicPhrases ==
  << <<"3","D">>,
     <<"C","u","b","e">>,
     <<"s","p","h","e","r","e"," ","v","o","l","u","m","e">>,
     <<"t","h","r","e","e"," ","d","i","m","e","n","s","i","o","n","a","l">>,
     <<"g","r","a","p","h">>,
     <<"T","r","i","a","n","g","l","e">>,
     <<"s","t","r","e","e","t">>,
     <<"e","x","p","l","a","i","n">> >>

\* Number of phrases a topic is built from.
MaxPhrases == 3

\* A topic: one to MaxPhrases phrases separated by single spaces.
RECURSIVE JoinSpace(_)
JoinSpace(ps) ==
  IF Len(ps) = 0 THEN << >>
  ELSE IF Len(ps) = 1 THEN ps[1]
  ELSE ps[1] \o << " " >> \o JoinSpace(Tail(ps))

Topics ==
  UNION { { JoinSpace([i \in 1..n |-> TopicPhrases[f[i]]]) :
              f \in [1..n -> DOMAIN TopicPhrases] } : n \in 1..MaxPhrases }

\* str.lower() on the characters the topics use.
LowerChar(c) ==
  CASE c = "C" -> "c"
    [] c = "D" -> "d"
    [] c = "T" -> "t"
    [] OTHER -> c

lower(s) == [i \in DOMAIN s |-> LowerChar(s[i])]

\* sum(1 for keyword in keywords if keyword in prompt_lower)
RECURSIVE score(_, _)
score(keywords, prompt_lower) ==
  IF keywords = << >> THEN 0
  ELSE (IF Occurs(Head(keywords), prompt_lower) THEN 1 ELSE 0)
       + score(Tail(keywords), prompt_lower)

d3_score(user_prompt) == score(require_3d, lower(user_prompt))
d2_score(user_prompt) == score(better_2d, lower(user_prompt))

\* A slip of the comparison: ties with a nonzero score select 3D.
Use3dTieTo3d(d3, d2) == d3 >= d2 /\ d3 > 0

\* use_3d = d3_score > d2_score and d3_score > 0
Use3dDecision(d3, d2) == d3 > d2 /\ d3 > 0

detect_scene_type(user_prompt) ==
  Use3dDecision(d3_score(user_prompt), d2_score(user_prompt))

InitDetect ==
  /\ topic \in Topics
  /\ use_3d = FALSE
  /\ dpc = "start"
  /\ IdleReconcile /\ IdleLocate /\ IdleSanitize /\ IdlePipeline /\ IdleApi /\ IdleJobs

\* generate_video with use_3d=None: the AUTO mode calls detect_scene_type.
DetectSceneType ==
  /\ dpc = "start"
  /\ use_3d' = detect_scene_type(topic)
  /\ dpc' = "detected"
  /\ UNCHANGED << jobsVars, apiVars, topic, reconVars, locateVars, fixVars, pipeVars >>

NextDetect == DetectSceneType

SpecDetect == InitDetect /\ [][NextDetect]_vars

\* The keywords of a list that occur in a string, as a set.
KeywordsIn(keywords, s) == { k \in Range(keywords) : Occurs(k, s) }

\* C1: in AUTO mode 3D is selected exactly when strictly more 3D keywords
\* than 2D keywords occur in the lower-cased topic and at least one 3D
\* keyword occurs; ties and a higher 2D count select 2D; three 3D keywords
\* against one 2D keyword select 3D.
C1_SceneModeScoring ==
  dpc = "detected" =>
    LET n3 == Cardinality(KeywordsIn(require_3d, lower(topic)))
        n2 == Cardinality(KeywordsIn(better_2d, lower(topic)))
    IN  /\ use_3d = (n3 > n2 /\ n3 # 0)
        /\ (n3 <= n2 => use_3d = FALSE)
        /\ (n3 = 3 /\ n2 = 1 => use_3d = TRUE)

\* C1 witness: a topic with three 3D keywords and one 2D keyword was scored
\* and 3D was selected.
C1_Witness ==
  /\ dpc = "detected"
  /\ Cardinality(KeywordsIn(require_3d, lower(topic))) = 3
  /\ Cardinality(KeywordsIn(better_2d, lower(topic))) = 1
  /\ use_3d = TRUE

(***************************************************************************)
(* Duration policy of add_audio_to_video, primary path                     *)
(* (src/manim_ai_generator.py:755-793).  A clip is a record: `duration` is *)
(* the clip's duration attribute; a video clip also keeps how many seconds *)
(* of rendered frames it shows, an audio clip how many seconds of speech   *)
(* it plays from offset 0 and where its silence lies.                      *)
(***************************************************************************)
min_duration == 30
max_duration == 60

\* Longest duration a loaded video or narration has.
MaxDuration == 76

Max2(a, b) == IF a >= b THEN a ELSE b
Min2(a, b) == IF a <= b THEN a ELSE b

\* VideoFileClip(video_path, audio=False): a clip of the file's duration.
VideoFileClip(d) == [duration |-> d, frames |-> d]

\* AudioFileClip(temp_audio.name)
AudioFileClip(d) ==
  [duration |-> d, speech |-> d, silence_start |-> 0, silence |-> 0]

\* clip.subclip(0, t_end): the part of the clip between 0 and t_end.
video_subclip(clip, t_end) ==
  [duration |-> t_end, frames |-> Min2(clip.frames, t_end)]

audio_subclip(clip, t_end) ==
  [duration |-> t_end, speech |-> Min2(clip.speech, t_end),
   silence_start |-> 0, silence |-> 0]

\* A set_duration whose result is lost: the clip keeps its duration.
set_duration_dropped(clip, t) == clip

\* clip.set_duration(t): the same clip with its duration attribute set.
set_duration(clip, t) == [clip EXCEPT !.duration = t]

\* CompositeVideoClip([video]): plays the clip; same duration, same frames.
CompositeVideoClip(clip) == [duration |-> clip.duration, frames |-> clip.frames]

\* AudioClip(lambda t: [0, 0], duration=d, fps=audio.fps).set_start(start)
SilenceAt(start, d) == [start |-> start, duration |-> d]

\* Silence laid over the speech from offset 0 instead of after it.
CompositeAudioClipFromZero(clip, sil) ==
  [duration |-> Max2(clip.duration, sil.duration),
   speech |-> clip.speech, silence_start |-> 0, silence |-> sil.duration]

\* CompositeAudioClip([audio, silence]): lasts to the latest end of its parts.
CompositeAudioClip(clip, sil) ==
  [duration |-> Max2(clip.duration, sil.start + sil.duration),
   speech |-> clip.speech,
   silence_start |-> sil.start, silence |-> sil.duration]

\* A policy without the lower bound: short videos are kept as they are.
TargetNoLowerBound(d) == IF d > max_duration THEN max_duration ELSE d

\* target_duration as lines 761-776 assign it.
TargetDuration(d) ==
  IF d > max_duration THEN max_duration
  ELSE IF d < min_duration THEN min_duration
  ELSE d

\* Lines 761-776: the video clip after trimming or extending.
MatchVideo(clip) ==
  IF clip.duration > max_duration THEN video_subclip(clip, max_duration)
  ELSE IF clip.duration < min_duration
       THEN set_duration(CompositeVideoClip(clip), min_duration)
  ELSE clip

\* An audio policy that only trims: short narration is left short.
MatchAudioTrimOnly(clip, target) ==
  IF clip.duration > target THEN audio_subclip(clip, target) ELSE clip

\* Lines 778-786: the audio clip after trimming or padding.
MatchAudio(clip, target) ==
  IF clip.duration > target THEN audio_subclip(clip, target)
  ELSE IF clip.duration < target
       THEN set_duration(
              CompositeAudioClip(clip,
                SilenceAt(clip.duration, target - clip.duration)),
              target)
  ELSE clip

Durations == 1..MaxDuration

\* Both files are open: video.duration = Dv, audio.duration = Da (line 755).
InitReconcile ==
  /\ Dv \in Durations
  /\ Da \in Durations
  /\ video = VideoFileClip(Dv)
  /\ audio = AudioFileClip(Da)
  /\ target_duration = 0
  /\ rpc = "loaded"
  /\ IdleDetect /\ IdleLocate /\ IdleSanitize /\ IdlePipeline /\ IdleApi /\ IdleJobs

\* Lines 761-776.
ReconcileVideo ==
  /\ rpc = "loaded"
  /\ video' = MatchVideo(video)
  /\ target_duration' = TargetDuration(video.duration)
  /\ rpc' = "video_matched"
  /\ UNCHANGED << jobsVars, apiVars, Dv, Da, audio, detectVars, locateVars, fixVars, pipeVars >>

\* Lines 778-786.
ReconcileAudio ==
  /\ rpc = "video_matched"
  /\ audio' = MatchAudio(audio, target_duration)
  /\ rpc' = "audio_matched"
  /\ UNCHANGED << jobsVars, apiVars, Dv, Da, video, target_duration, detectVars, locateVars, fixVars, pipeVars >>

\* Lines 788-793: both clips forced to target_duration, audio attached.
ForceDurations ==
  /\ rpc = "audio_matched"
  /\ video' = set_duration(video, target_duration)
  /\ audio' = set_duration(audio, target_duration)
  /\ rpc' = "mux"
  /\ UNCHANGED << jobsVars, apiVars, Dv, Da, target_duration, detectVars, locateVars, fixVars, pipeVars >>

NextReconcile == ReconcileVideo \/ ReconcileAudio \/ ForceDurations

SpecReconcile == InitReconcile /\ [][NextReconcile]_vars

\* The target has been computed.
TargetFixed == rpc \in {"video_matched", "audio_matched", "mux"}
\* The audio has been reconciled to the target.
AudioReconciled == rpc \in {"audio_matched", "mux"}

\* C2: the target depends on Dv alone: 60 above 60, 30 below 30, Dv
\* otherwise (30 and 60 themselves are kept), so it lies in [30, 60].
C2_TargetPolicy ==
  TargetFixed =>
    /\ (Dv > 60 => target_duration = 60)
    /\ (Dv < 30 => target_duration = 30)
    /\ (Dv >= 30 /\ Dv <= 60 => target_duration = Dv)
    /\ target_duration >= 30 /\ target_duration <= 60

\* C2 witness: a video of exactly 30 s beside a narration longer than 60 s
\* keeps its own duration as the target.
C2_Witness ==
  TargetFixed /\ Dv = 30 /\ Da > 60 /\ target_duration = 30

\* C3: longer audio is cut to its first target seconds, shorter audio gets
\* target - Da seconds of silence starting at offset Da, equal audio is
\* unchanged; in all three cases the audio lasts exactly target.
C3_AudioReconciled ==
  AudioReconciled =>
    /\ audio.duration = target_duration
    /\ (Da > target_duration =>
          /\ audio.speech = target_duration
          /\ audio.silence = 0)
    /\ (Da < target_duration =>
          /\ audio.speech = Da
          /\ audio.silence_start = Da
          /\ audio.silence = target_duration - Da)
    /\ (Da = target_duration => audio = AudioFileClip(Da))

\* C3 witness: a narration shorter than the target was padded after its end.
C3_Witness ==
  /\ rpc = "audio_matched" /\ Da < target_duration
  /\ audio.silence_start = Da /\ audio.silence > 0

\* The narration was cut (trimmed) to t seconds.
AudioTrimmedTo(t) ==
  Da > t /\ audio.duration = t /\ audio.speech = t /\ audio.silence = 0

\* The narration was kept whole and padded with trailing silence to t seconds.
AudioPaddedTo(t) ==
  /\ Da < t /\ audio.duration = t /\ audio.speech = Da
  /\ audio.silence_start = Da /\ audio.silence = t - Da

\* C4 as stated: (45,10) -> target 45, 35 s of trailing silence; (75,50) ->
\* target 60, audio trimmed to 60 s; (20,40) -> target 30, audio trimmed to 30.
C4_AsStated ==
  rpc = "mux" =>
    /\ (Dv = 45 /\ Da = 10 => target_duration = 45 /\ AudioPaddedTo(45)
                               /\ audio.silence = 35)
    /\ (Dv = 75 /\ Da = 50 => target_duration = 60 /\ AudioTrimmedTo(60))
    /\ (Dv = 20 /\ Da = 40 => target_duration = 30 /\ AudioTrimmedTo(30))

\* C4 amended: as stated, except that for (75,50) the 50 s narration is
\* shorter than the 60 s target and is padded with 10 s of trailing silence
\* to 60 s, not trimmed.
C4_ReconcilerExamples ==
  rpc = "mux" =>
    /\ (Dv = 45 /\ Da = 10 => target_duration = 45 /\ AudioPaddedTo(45)
                               /\ audio.silence = 35)
    /\ (Dv = 75 /\ Da = 50 => target_duration = 60 /\ AudioPaddedTo(60)
                               /\ audio.silence = 10)
    /\ (Dv = 20 /\ Da = 40 => target_duration = 30 /\ AudioTrimmedTo(30))

\* C4 witness: the (75,50) case reached the mux step with a padded narration.
C4_Witness ==
  rpc = "mux" /\ Dv = 75 /\ Da = 50 /\ AudioPaddedTo(60)

\* C5: at the mux step the video and the audio both last exactly target.
C5_MuxDurationsEqualTarget ==
  rpc = "mux" =>
    /\ video.duration = target_duration
    /\ audio.duration = target_duration

\* C5 witness: a short video beside a long narration, both brought to 30 s.
C5_Witness ==
  /\ rpc = "mux" /\ Dv < 30 /\ Da > 60
  /\ video.duration = 30 /\ audio.duration = 30

(***************************************************************************)
(* Artifact scan of execute_manim (src/manim_ai_generator.py:630-685).     *)
(* A file is a record: its path (its place in the enumeration), the tree   *)
(* it lies in and its st_mtime.  Times are whole seconds.                  *)
(***************************************************************************)
\* "created in last 60 seconds"
RecencyWindow == 60

\* Most .mp4 files the two trees hold at the scan.
MaxFiles == 3
\* File ages lie within AgeSpread of 0 and within AgeSpread of the window.
AgeSpread == 2

Ages ==
  (0..AgeSpread) \cup ((RecencyWindow - AgeSpread)..(RecencyWindow + AgeSpread))

\* time.time() at line 647.
ScanTime == RecencyWindow + AgeSpread

Trees == {"scratch", "output"}

\* Every list of n files the two rglob calls can yield: temp_dir.rglob
\* first, then output_dir.rglob appended (lines 638-643), so no file of the
\* output tree precedes a file of the scratch tree; any order within a tree.
Enumerations(n) ==
  { [i \in 1..n |-> [path |-> i, tree |-> t[i], mtime |-> ScanTime - a[i]]] :
      t \in { u \in [1..n -> Trees] :
                \A i, j \in 1..n :
                  (i < j /\ u[i] = "output") => u[j] = "output" },
      a \in [1..n -> Ages] }

\* A filter that also lets through a file aged exactly the window.
is_recent_inclusive(now, v) == now - v.mtime <= RecencyWindow

\* current_time - v.stat().st_mtime < 60
is_recent(now, v) == now - v.mtime < RecencyWindow

\* [v for v in video_files if current_time - v.stat().st_mtime < 60]
RECURSIVE filter_recent(_, _)
filter_recent(now, vs) ==
  IF vs = << >> THEN << >>
  ELSE IF is_recent(now, Head(vs))
       THEN << Head(vs) >> \o filter_recent(now, Tail(vs))
       ELSE filter_recent(now, Tail(vs))

\* A selection that takes the first file of the list.
first_listed(vs) == vs[1]

\* max(recent_videos, key=lambda p: p.stat().st_mtime): the first element,
\* in list order, that no other element exceeds.
RECURSIVE max_by_mtime(_)
max_by_mtime(vs) ==
  IF Len(vs) = 1 THEN vs[1]
  ELSE LET best == max_by_mtime(SubSeq(vs, 1, Len(vs) - 1))
           last == vs[Len(vs)]
       IN  IF last.mtime > best.mtime THEN last ELSE best

\* The renderer exited with code 0; the two rglob calls have run.
InitLocate ==
  /\ \E n \in 0..MaxFiles : video_files \in Enumerations(n)
  /\ current_time = 0
  /\ recent_videos = << >>
  /\ latest_video = "none"
  /\ lpc = "enumerated"
  /\ IdleDetect /\ IdleReconcile /\ IdleSanitize /\ IdlePipeline /\ IdleApi /\ IdleJobs

\* Lines 645-648.
FilterRecent ==
  /\ lpc = "enumerated"
  /\ current_time' = ScanTime
  /\ recent_videos' = filter_recent(ScanTime, video_files)
  /\ lpc' = "filtered"
  /\ UNCHANGED << jobsVars, apiVars, video_files, latest_video, detectVars, reconVars, fixVars, pipeVars >>

\* Lines 650-652.
SelectLatest ==
  /\ lpc = "filtered"
  /\ recent_videos # << >>
  /\ latest_video' = max_by_mtime(recent_videos)
  /\ lpc' = "selected"
  /\ UNCHANGED << jobsVars, apiVars, video_files, current_time, recent_videos,
                  detectVars, reconVars, fixVars, pipeVars >>

\* Lines 674-685: "No recent video file found".
RaiseNotFound ==
  /\ lpc = "filtered"
  /\ recent_videos = << >>
  /\ latest_video' = "NotFound"
  /\ lpc' = "notfound"
  /\ UNCHANGED << jobsVars, apiVars, video_files, current_time, recent_videos,
                  detectVars, reconVars, fixVars, pipeVars >>

NextLocate == FilterRecent \/ SelectLatest \/ RaiseNotFound

SpecLocate == InitLocate /\ [][NextLocate]_vars

\* The locate step has ended, one way or the other.
LocateEnded == lpc \in {"selected", "notfound"}

AgeOf(v) == current_time - v.mtime

DistinctMtimes ==
  \A i, j \in DOMAIN video_files :
    i # j => video_files[i].mtime # video_files[j].mtime

\* C6: with at least one candidate, pairwise distinct modification times
\* and every candidate within the 60 s window, the file selected is the one
\* with the greatest modification time, whatever the enumeration order and
\* whatever trees the files lie in.
C6_SelectsMaxMtime ==
  ( /\ LocateEnded
    /\ video_files # << >>
    /\ DistinctMtimes
    /\ \A v \in Range(video_files) : AgeOf(v) < 60 )
  => /\ lpc = "selected"
     /\ latest_video \in Range(video_files)
     /\ \A v \in Range(video_files) : v.mtime <= latest_video.mtime

\* C6 witness: three recent files with distinct times in both trees, the
\* newest enumerated neither first nor last, and it was selected.
C6_Witness ==
  /\ lpc = "selected"
  /\ Len(video_files) = 3
  /\ DistinctMtimes
  /\ \A v \in Range(video_files) : AgeOf(v) < 60
  /\ { v.tree : v \in Range(video_files) } = Trees
  /\ latest_video = video_files[2]

\* C7: a file modified 60 s or more before the scan is never selected, and
\* when every file found is that old the locate step ends in NotFound.
C7_StaleNeverSelected ==
  LocateEnded =>
    /\ (lpc = "selected" => AgeOf(latest_video) < 60)
    /\ ((\A v \in Range(video_files) : AgeOf(v) >= 60) => lpc = "notfound")

\* C7 witness: the only .mp4 file is exactly 60 s old and the step ended in
\* NotFound.
C7_Witness ==
  /\ lpc = "notfound"
  /\ Len(video_files) = 1
  /\ AgeOf(video_files[1]) = 60

(***************************************************************************)
(* _fix_generated_manim_code (src/manim_ai_generator.py:306-441).          *)
(*                                                                         *)
(* Source text is a sequence of lexemes.  A lexeme is one character that   *)
(* is not a word character, or a piece of a word; every literal of every   *)
(* pattern and of every replacement is a whole number of lexemes, and the  *)
(* text a sequence stands for is the concatenation of its lexemes.  A      *)
(* regular expression is a sequence of elements, matched as Python's re    *)
(* matches: leftmost, greedy, backtracking.                                *)
(***************************************************************************)
\* Pattern elements.
Lit(v)      == [t |-> "lit", v |-> v]                \* the literal text v
Cls(c, min) == [t |-> "cls", c |-> c, min |-> min]   \* [c]* (min 0) or [c]+ (min 1)
Opt(v)      == [t |-> "opt", v |-> v]                \* v?
Alt(ps)     == [t |-> "alt", ps |-> ps]              \* (?:p1|p2|...)
NotAfter(v) == [t |-> "notafter", v |-> v]           \* (?<!v)
Bol         == [t |-> "bol"]                         \* ^ under re.MULTILINE
Eol         == [t |-> "eol"]                         \* $ under re.MULTILINE
Open(g)     == [t |-> "open", g |-> g]               \* ( of group g
Close(g)    == [t |-> "close", g |-> g]              \* ) of group g
\* Replacement elements.
Grp(g)      == [t |-> "grp", g |-> g]                \* \g

\* Word pieces made of [A-Z_] only.
UpperPieces ==
  { "BLUE", "DARK_", "FRAME_HEIGHT", "FRAME_WIDTH", "GRAY", "GREY",
    "LIGHT_", "ORIGIN", "RED", "UP", "WHITE", "_A" }

\* Word pieces made of [a-z_] only.
LowerPieces ==
  { "_c", "_vector", "a", "angle_in_degrees", "animate", "available",
    "background_color", "c", "camera", "changed", "complex", "config",
    "dash_length", "dot", "fill_", "frame_height", "frame_width", "from",
    "get_center", "get_frame", "get_vertex_coords", "get_vertices",
    "import", "in", "instead", "invalid", "ize", "manim", "move_to",
    "moving_dot", "normal", "not", "opacity", "p", "play", "radius",
    "removed", "replaced", "rotate", "rotation", "scale", "self",
    "set_background_color", "set_fill", "set_stroke", "shift", "sq",
    "stroke_", "supported", "use", "uv_resolution", "v", "w", "wait",
    "width", "with", "x" }

\* Word pieces of letters of both cases.
MixedCasePieces ==
  { "Background", "Chaining", "Circle", "DashedLine", "Dot", "Invalid",
    "Line", "Manim", "Math", "Matrix", "Simplified", "Sphere", "Tex",
    "Text", "TracedPath" }

\* Word pieces made of digits only.
DigitPieces ==
  { "0", "1", "19", "2", "5", "8" }
\* Fix 1, lines 311-315: self.play(self.camera.animate.set_background_color(X) -> an assignment
Fix1 ==
  << [pat |->  << Lit(<<"self", ".", "play", "(", "self", ".", "camera", ".", "animate", ".",
                        "set_background_color", "(">>),
                  Open(1),
                  Cls("notclose", 1),
                  Close(1),
                  Lit(<<")">>) >>,
      repl |-> << Lit(<<"self", ".", "camera", ".", "background_color", " ", "=", " ">>),
                  Grp(1),
                  Lit(<<"\n", " ", " ", " ", " ", " ", " ", " ", " ", "self", ".", "wait",
                        "(", "0", ".", "5", ")", "\n", " ", " ", " ", " ", " ", " ", " ",
                        " ", "#", " ", "Background", " ", "changed">>) >>] >>

\* Fix 2, line 318: code.replace('self.camera.animate', '# self.camera.animate (invalid)')
Fix2 ==
  << [pat |->  << Lit(<<"self", ".", "camera", ".", "animate">>) >>,
      repl |-> << Lit(<<"#", " ", "self", ".", "camera", ".", "animate", " ", "(", "invalid",
                        ")">>) >>] >>

\* Fix 3, lines 321-325: self\.play\(\s*self\.camera\.background_color = ([^,)]+)
Fix3 ==
  << [pat |->  << Lit(<<"self", ".", "play", "(">>),
                  Cls("space", 0),
                  Lit(<<"self", ".", "camera", ".", "background_color", " ", "=", " ">>),
                  Open(1),
                  Cls("notcommaclose", 1),
                  Close(1) >>,
      repl |-> << Lit(<<"self", ".", "camera", ".", "background_color", " ", "=", " ">>),
                  Grp(1),
                  Lit(<<"\n", " ", " ", " ", " ", " ", " ", " ", " ", "self", ".", "play", "(">>) >>] >>

\* Fix 4a, line 328: code.replace('fill_fill_opacity=', 'fill_opacity=')
\* Fix 4b, line 329: code.replace('stroke_stroke_opacity=', 'stroke_opacity=')
Fix4 ==
  << [pat |->  << Lit(<<"fill_", "fill_", "opacity", "=">>) >>,
      repl |-> << Lit(<<"fill_", "opacity", "=">>) >>],
     [pat |->  << Lit(<<"stroke_", "stroke_", "opacity", "=">>) >>,
      repl |-> << Lit(<<"stroke_", "opacity", "=">>) >>] >>

\* Fix 5, line 333: (?<!fill_)(?<!stroke_)opacity=  ->  fill_opacity=
Fix5 ==
  << [pat |->  << NotAfter(<<"fill_">>),
                  NotAfter(<<"stroke_">>),
                  Lit(<<"opacity", "=">>) >>,
      repl |-> << Lit(<<"fill_", "opacity", "=">>) >>] >>

\* Fix 6, line 336: code.replace('TracedPath(', ...)
Fix6 ==
  << [pat |->  << Lit(<<"TracedPath", "(">>) >>,
      repl |-> << Lit(<<"#", " ", "TracedPath", " ", "not", " ", "supported", " ", "-", " ",
                        "use", " ", "Circle", " ", "instead", "\n", " ", " ", " ", " ", " ",
                        " ", " ", " ", "#", " ", "Circle", "(">>) >>] >>

\* Fix 7a, lines 340-344: Dot\s*\(\s*[A-Z_]+[A-Z_0-9]*\s*,\s*  ->  Dot(
\* Fix 7b, lines 346-350: Dot\s*\(\s*(?:moving_dot\.get_center\(\)|[a-z_]+\.get_center\(\))\s*,\s*  ->  Dot(
Fix7 ==
  << [pat |->  << Lit(<<"Dot">>),
                  Cls("space", 0),
                  Lit(<<"(">>),
                  Cls("space", 0),
                  Cls("upper", 1),
                  Cls("upperdigit", 0),
                  Cls("space", 0),
                  Lit(<<",">>),
                  Cls("space", 0) >>,
      repl |-> << Lit(<<"Dot", "(">>) >>],
     [pat |->  << Lit(<<"Dot">>),
                  Cls("space", 0),
                  Lit(<<"(">>),
                  Cls("space", 0),
                  Alt(<<
                        << Lit(<<"moving_dot", ".", "get_center", "(", ")">>) >>,
                        << Cls("lower", 1), Lit(<<".", "get_center", "(", ")">>) >> >>),
                  Cls("space", 0),
                  Lit(<<",">>),
                  Cls("space", 0) >>,
      repl |-> << Lit(<<"Dot", "(">>) >>] >>

\* Fix 8a, line 353: code.replace('config.frame_width', 'FRAME_WIDTH')
\* Fix 8b, line 354: code.replace('config.frame_height', 'FRAME_HEIGHT')
Fix8 ==
  << [pat |->  << Lit(<<"config", ".", "frame_width">>) >>,
      repl |-> << Lit(<<"FRAME_WIDTH">>) >>],
     [pat |->  << Lit(<<"config", ".", "frame_height">>) >>,
      repl |-> << Lit(<<"FRAME_HEIGHT">>) >>] >>

\* Fix 9a, lines 358-366: invalid_colors: code.replace('GRAY_A', 'GRAY')
\* Fix 9b, lines 359-366: invalid_colors: code.replace('GREY_A', 'GRAY')
\* Fix 9c, lines 360-366: invalid_colors: code.replace('LIGHT_GRAY', 'GRAY')
\* Fix 9d, lines 361-366: invalid_colors: code.replace('LIGHT_GREY', 'GRAY')
\* Fix 9e, lines 362-366: invalid_colors: code.replace('DARK_GRAY', 'GRAY')
\* Fix 9f, lines 363-366: invalid_colors: code.replace('DARK_GREY', 'GRAY')
Fix9 ==
  << [pat |->  << Lit(<<"GRAY", "_A">>) >>,
      repl |-> << Lit(<<"GRAY">>) >>],
     [pat |->  << Lit(<<"GREY", "_A">>) >>,
      repl |-> << Lit(<<"GRAY">>) >>],
     [pat |->  << Lit(<<"LIGHT_", "GRAY">>) >>,
      repl |-> << Lit(<<"GRAY">>) >>],
     [pat |->  << Lit(<<"LIGHT_", "GREY">>) >>,
      repl |-> << Lit(<<"GRAY">>) >>],
     [pat |->  << Lit(<<"DARK_", "GRAY">>) >>,
      repl |-> << Lit(<<"GRAY">>) >>],
     [pat |->  << Lit(<<"DARK_", "GREY">>) >>,
      repl |-> << Lit(<<"GRAY">>) >>] >>

\* Fix 10a, lines 370-374: (Dot\([^)]*\))\.move_to\([^)]*\)  ->  \1
\* Fix 10b, lines 375-379: (Circle\([^)]*\))\.move_to\([^)]*\)  ->  \1
Fix10 ==
  << [pat |->  << Open(1),
                  Lit(<<"Dot", "(">>),
                  Cls("notclose", 0),
                  Lit(<<")">>),
                  Close(1),
                  Lit(<<".", "move_to", "(">>),
                  Cls("notclose", 0),
                  Lit(<<")">>) >>,
      repl |-> << Grp(1) >>],
     [pat |->  << Open(1),
                  Lit(<<"Circle", "(">>),
                  Cls("notclose", 0),
                  Lit(<<")">>),
                  Close(1),
                  Lit(<<".", "move_to", "(">>),
                  Cls("notclose", 0),
                  Lit(<<")">>) >>,
      repl |-> << Grp(1) >>] >>

\* Fix 11, lines 382-386: DashedLine\(([^)]+)\)\.set_stroke\(width=(\d+), fill_opacity=
Fix11 ==
  << [pat |->  << Lit(<<"DashedLine", "(">>),
                  Open(1),
                  Cls("notclose", 1),
                  Close(1),
                  Lit(<<")", ".", "set_stroke", "(", "width", "=">>),
                  Open(2),
                  Cls("digit", 1),
                  Close(2),
                  Lit(<<",", " ", "fill_", "opacity", "=">>) >>,
      repl |-> << Lit(<<"DashedLine", "(">>),
                  Grp(1),
                  Lit(<<")", ".", "set_stroke", "(", "width", "=">>),
                  Grp(2),
                  Lit(<<",", " ", "opacity", "=">>) >>] >>

\* Fix 12a, line 389: self\.wait\(0\)  ->  self.wait(0.5)
\* Fix 12b, line 390: self\.wait\(0\.0\)  ->  self.wait(0.5)
Fix12 ==
  << [pat |->  << Lit(<<"self", ".", "wait", "(", "0", ")">>) >>,
      repl |-> << Lit(<<"self", ".", "wait", "(", "0", ".", "5", ")">>) >>],
     [pat |->  << Lit(<<"self", ".", "wait", "(", "0", ".", "0", ")">>) >>,
      repl |-> << Lit(<<"self", ".", "wait", "(", "0", ".", "5", ")">>) >>] >>

\* Fix 13, line 393: code.replace('.get_vertex_coords()', '.get_vertices()')
Fix13 ==
  << [pat |->  << Lit(<<".", "get_vertex_coords", "(", ")">>) >>,
      repl |-> << Lit(<<".", "get_vertices", "(", ")">>) >>] >>

\* Fix 14, line 396: ^.*normalize\(.*$ (MULTILINE)  ->  a comment
Fix14 ==
  << [pat |->  << Bol,
                  Cls("notnl", 0),
                  Lit(<<"normal", "ize", "(">>),
                  Cls("notnl", 0),
                  Eol >>,
      repl |-> << Lit(<<"#", " ", "normal", "ize", "(", ")", " ", "removed", " ", "-", " ",
                        "not", " ", "available", " ", "in", " ", "Manim", " ", "v", "0", ".",
                        "19">>) >>] >>

\* Fix 15, line 399: ^.*rotate_vector\(.*$ (MULTILINE)  ->  a comment
Fix15 ==
  << [pat |->  << Bol,
                  Cls("notnl", 0),
                  Lit(<<"rotate", "_vector", "(">>),
                  Cls("notnl", 0),
                  Eol >>,
      repl |-> << Lit(<<"#", " ", "rotate", "_vector", "(", ")", " ", "removed", " ", "-",
                        " ", "not", " ", "available", " ", "in", " ", "Manim", " ", "v", "0",
                        ".", "19">>) >>] >>

\* Fix 16a, line 402: \.set_fill\(\s*fill_opacity=  ->  .set_fill(opacity=
\* Fix 16b, line 403: \.set_fill\(([^,)]+),\s*fill_opacity=  ->  .set_fill(\1, opacity=
Fix16 ==
  << [pat |->  << Lit(<<".", "set_fill", "(">>),
                  Cls("space", 0),
                  Lit(<<"fill_", "opacity", "=">>) >>,
      repl |-> << Lit(<<".", "set_fill", "(", "opacity", "=">>) >>],
     [pat |->  << Lit(<<".", "set_fill", "(">>),
                  Open(1),
                  Cls("notcommaclose", 1),
                  Close(1),
                  Lit(<<",">>),
                  Cls("space", 0),
                  Lit(<<"fill_", "opacity", "=">>) >>,
      repl |-> << Lit(<<".", "set_fill", "(">>),
                  Grp(1),
                  Lit(<<",", " ", "opacity", "=">>) >>] >>

\* Fix 17a, line 407: \.set_stroke\(([^)]*),\s*fill_opacity=[^,)]+  ->  .set_stroke(\1
\* Fix 17b, line 408: \.set_stroke\(\s*fill_opacity=[^,)]+,?\s*  ->  .set_stroke(
\* Fix 17c, line 410: \.set_stroke\(\s*stroke_opacity=  ->  .set_stroke(opacity=
\* Fix 17d, line 411: \.set_stroke\(([^,)]+),\s*stroke_opacity=  ->  .set_stroke(\1, opacity=
Fix17 ==
  << [pat |->  << Lit(<<".", "set_stroke", "(">>),
                  Open(1),
                  Cls("notclose", 0),
                  Close(1),
                  Lit(<<",">>),
                  Cls("space", 0),
                  Lit(<<"fill_", "opacity", "=">>),
                  Cls("notcommaclose", 1) >>,
      repl |-> << Lit(<<".", "set_stroke", "(">>),
                  Grp(1) >>],
     [pat |->  << Lit(<<".", "set_stroke", "(">>),
                  Cls("space", 0),
                  Lit(<<"fill_", "opacity", "=">>),
                  Cls("notcommaclose", 1),
                  Opt(<<",">>),
                  Cls("space", 0) >>,
      repl |-> << Lit(<<".", "set_stroke", "(">>) >>],
     [pat |->  << Lit(<<".", "set_stroke", "(">>),
                  Cls("space", 0),
                  Lit(<<"stroke_", "opacity", "=">>) >>,
      repl |-> << Lit(<<".", "set_stroke", "(", "opacity", "=">>) >>],
     [pat |->  << Lit(<<".", "set_stroke", "(">>),
                  Open(1),
                  Cls("notcommaclose", 1),
                  Close(1),
                  Lit(<<",">>),
                  Cls("space", 0),
                  Lit(<<"stroke_", "opacity", "=">>) >>,
      repl |-> << Lit(<<".", "set_stroke", "(">>),
                  Grp(1),
                  Lit(<<",", " ", "opacity", "=">>) >>] >>

\* Fix 18, line 414: (Tex|MathTex|Matrix)\(  ->  Text(  # \1 replaced with Text ...
Fix18 ==
  << [pat |->  << Open(1),
                  Alt(<<
                        << Lit(<<"Tex">>) >>,
                        << Lit(<<"Math", "Tex">>) >>,
                        << Lit(<<"Matrix">>) >> >>),
                  Close(1),
                  Lit(<<"(">>) >>,
      repl |-> << Lit(<<"Text", "(", " ", " ", "#", " ">>),
                  Grp(1),
                  Lit(<<" ", "replaced", " ", "with", " ", "Text", "\n", " ", " ", " ", " ",
                        " ", " ", " ", " ", "#", " ", "Text", "(">>) >>] >>

\* Fix 19a, lines 417-419: invalid_params: uv_resolution=[^,)]+,?\s*  ->  nothing
\* Fix 19b, lines 417-419: invalid_params: dash_length=[^,)]+,?\s*  ->  nothing
\* Fix 19c, lines 417-419: invalid_params: angle_in_degrees=[^,)]+,?\s*  ->  nothing
Fix19 ==
  << [pat |->  << Lit(<<"uv_resolution", "=">>),
                  Cls("notcommaclose", 1),
                  Opt(<<",">>),
                  Cls("space", 0) >>,
      repl |-> << >>],
     [pat |->  << Lit(<<"dash_length", "=">>),
                  Cls("notcommaclose", 1),
                  Opt(<<",">>),
                  Cls("space", 0) >>,
      repl |-> << >>],
     [pat |->  << Lit(<<"angle_in_degrees", "=">>),
                  Cls("notcommaclose", 1),
                  Opt(<<",">>),
                  Cls("space", 0) >>,
      repl |-> << >>] >>

\* Fix 20a, line 422: from manim import normalize_vector  ->  a comment
\* Fix 20b, line 423: import normalize_vector  ->  a comment
Fix20 ==
  << [pat |->  << Lit(<<"from", " ", "manim", " ", "import", " ", "normal", "ize", "_vector">>) >>,
      repl |-> << Lit(<<"#", " ", "Invalid", " ", "import", " ", "removed">>) >>],
     [pat |->  << Lit(<<"import", " ", "normal", "ize", "_vector">>) >>,
      repl |-> << Lit(<<"#", " ", "Invalid", " ", "import", " ", "removed">>) >>] >>

\* Fix 21a, line 426: ^\s*\w+\s*=.*normalize\(.*$ (MULTILINE)  ->  a comment
\* Fix 21b, line 427: ^\s*\w+\s*=.*rotate_vector\(.*$ (MULTILINE)  ->  a comment
Fix21 ==
  << [pat |->  << Bol,
                  Cls("space", 0),
                  Cls("word", 1),
                  Cls("space", 0),
                  Lit(<<"=">>),
                  Cls("notnl", 0),
                  Lit(<<"normal", "ize", "(">>),
                  Cls("notnl", 0),
                  Eol >>,
      repl |-> << Lit(<<"#", " ", "Line", " ", "removed", " ", "-", " ", "normal", "ize",
                        "(", ")", " ", "not", " ", "available">>) >>],
     [pat |->  << Bol,
                  Cls("space", 0),
                  Cls("word", 1),
                  Cls("space", 0),
                  Lit(<<"=">>),
                  Cls("notnl", 0),
                  Lit(<<"rotate", "_vector", "(">>),
                  Cls("notnl", 0),
                  Eol >>,
      repl |-> << Lit(<<"#", " ", "Line", " ", "removed", " ", "-", " ", "rotate", "_vector",
                        "(", ")", " ", "not", " ", "available">>) >>] >>

\* Fix 22, line 431: ^\s*normal_vector.*$ (MULTILINE)  ->  normal_vector_c = UP ...
Fix22 ==
  << [pat |->  << Bol,
                  Cls("space", 0),
                  Lit(<<"normal", "_vector">>),
                  Cls("notnl", 0),
                  Eol >>,
      repl |-> << Lit(<<"normal", "_vector", "_c", " ", "=", " ", "UP", " ", " ", "#", " ",
                        "Simplified", " ", "-", " ", "complex", " ", "rotation", " ",
                        "removed">>) >>] >>

\* Fix 23, line 435: \.get_frame\(\)  ->  .get_center()  # get_frame() replaced
Fix23 ==
  << [pat |->  << Lit(<<".", "get_frame", "(", ")">>) >>,
      repl |-> << Lit(<<".", "get_center", "(", ")", " ", " ", "#", " ", "get_frame", "(",
                        ")", " ", "replaced">>) >>] >>

\* Fix 24, line 439: (\.animate\.[^(]+\([^)]*\))\.[a-zA-Z_]+\(  ->  \1  # Chaining removed ...
Fix24 ==
  << [pat |->  << Open(1),
                  Lit(<<".", "animate", ".">>),
                  Cls("notopen", 1),
                  Lit(<<"(">>),
                  Cls("notclose", 0),
                  Lit(<<")">>),
                  Close(1),
                  Lit(<<".">>),
                  Cls("alpha", 1),
                  Lit(<<"(">>) >>,
      repl |-> << Grp(1),
                  Lit(<<" ", " ", "#", " ", "Chaining", " ", "removed", "\n", " ", " ", " ",
                        " ", " ", " ", " ", " ", "#", " ", ".">>) >>] >>

\* The rewrites in the order _fix_generated_manim_code applies them.
Fixes ==
  Fix1 \o Fix2 \o Fix3 \o Fix4 \o Fix5 \o Fix6 \o Fix7 \o Fix8 \o Fix9 \o
  Fix10 \o Fix11 \o Fix12 \o Fix13 \o Fix14 \o Fix15 \o Fix16 \o Fix17 \o
  Fix18 \o Fix19 \o Fix20 \o Fix21 \o Fix22 \o Fix23 \o Fix24
\* Fragments of generated source; a source text joins up to MaxSnippets of them.
Snippets ==
  << <<"self", ".", "play", "(", "self", ".", "camera", ".", "animate",
       ".", "scale", "(", "2", ")", ")">>,
     <<"self", ".", "play", "(", "self", ".", "camera", ".", "animate",
       ".", "set_background_color", "(", "BLUE", ")", ")">>,
     <<"c", ".", "set_stroke", "(", "stroke_", "opacity", "=", "0", ".",
       "5", ")">>,
     <<"c", ".", "set_stroke", "(", "WHITE", ",", " ", "2", ",", " ",
       "stroke_", "opacity", "=", "0", ".", "5", ")">>,
     <<"c", ".", "set_stroke", "(", "width", "=", "2", ",", " ",
       "opacity", "=", "0", ".", "5", ")">>,
     <<"c", ".", "set_fill", "(", "RED", ",", " ", "opacity", "=", "0",
       ".", "5", ")">>,
     <<"Circle", "(", "opacity", "=", "0", ".", "5", ")">>,
     <<"TracedPath", "(", "dot", ".", "get_center", ")">>,
     <<"Tex", "(", "x", ")">>,
     <<"Math", "Tex", "(", "x", ")">>,
     <<"Matrix", "(", "x", ")">>,
     <<"v", " ", "=", " ", "normal", "ize", "(", "a", ")">>,
     <<"w", " ", "=", " ", "rotate", "_vector", "(", "a", ")">>,
     <<"x", ".", "get_frame", "(", ")">>,
     <<"self", ".", "wait", "(", "0", ")">>,
     <<"Dot", "(", "ORIGIN", ",", " ", "radius", "=", "1", ")">>,
     <<"Dot", "(", "dot", ".", "get_center", "(", ")", ",", " ", "radius",
       "=", "1", ")">>,
     <<"p", ".", "get_vertex_coords", "(", ")">>,
     <<"config", ".", "frame_width">>,
     <<"GRAY", "_A">>,
     <<"LIGHT_", "GRAY">>,
     <<"DARK_", "GRAY">>,
     <<"Sphere", "(", "uv_resolution", "=", "8", ",", " ", "radius", "=",
       "1", ")">>,
     <<"sq", ".", "animate", ".", "shift", "(", "UP", ")", ".", "scale",
       "(", "2", ")">>,
     <<"DashedLine", "(", "a", ")", ".", "set_stroke", "(", "width", "=",
       "2", ",", " ", "opacity", "=", "0", ".", "5", ")">>,
     <<"Circle", "(", "radius", "=", "1", ")", ".", "move_to", "(", "p",
       ")">>,
     <<"from", " ", "manim", " ", "import", " ", "normal", "ize", "_vector">>,
     <<"normal", "_vector", " ", "=", " ", "UP">>,
     <<"fill_">>,
     <<"\n">>,
     <<" ">>,
     <<"x">> >>
\* Whether lexeme l lies, with all its characters, in character class c.
InClass(c, l) ==
  CASE c = "space"         -> l \in {" ", "\n"}                  \* \s
    [] c = "notclose"      -> l # ")"                            \* [^)]
    [] c = "notcommaclose" -> l \notin {",", ")"}                \* [^,)]
    [] c = "notopen"       -> l # "("                            \* [^(]
    [] c = "notnl"         -> l # "\n"                           \* .
    [] c = "upper"         -> l \in UpperPieces                  \* [A-Z_]
    [] c = "upperdigit"    -> l \in UpperPieces \cup DigitPieces \* [A-Z_0-9]
    [] c = "lower"         -> l \in LowerPieces                  \* [a-z_]
    [] c = "alpha"         -> l \in UpperPieces \cup LowerPieces \cup MixedCasePieces
    [] c = "digit"         -> l \in DigitPieces                  \* \d
    [] c = "word"          -> l \in UpperPieces \cup LowerPieces
                                    \cup MixedCasePieces \cup DigitPieces

\* s holds the lexemes v from position i on.
HasAt(s, i, v) ==
  i + Len(v) - 1 <= Len(s) /\ SubSeq(s, i, i + Len(v) - 1) = v

\* The position after the longest run of lexemes of class c from i on.
RunEnd(s, i, c) ==
  CHOOSE j \in i..(Len(s) + 1) :
    /\ \A k \in i..(j - 1) : InClass(c, s[k])
    /\ j = Len(s) + 1 \/ ~ InClass(c, s[j])

NoMatch == [ok |-> FALSE, end |-> 0, caps |-> << >>]
NoCaps  == [g \in 1..2 |-> << 0, 0 >>]

\* The match of pattern pat at position i of s that the backtracking
\* matcher finds first: `end` is the position after it, caps[g] the span of
\* group g.  A greedy run gives back one lexeme at a time; alternatives are
\* tried in order.
RECURSIVE MatchAt(_, _, _, _), TryRun(_, _, _, _, _, _), TryAlt(_, _, _, _, _)
MatchAt(pat, s, i, caps) ==
  IF pat = << >> THEN [ok |-> TRUE, end |-> i, caps |-> caps]
  ELSE
    LET e    == Head(pat)
        rest == Tail(pat)
    IN  CASE e.t = "lit" ->
               IF HasAt(s, i, e.v) THEN MatchAt(rest, s, i + Len(e.v), caps)
               ELSE NoMatch
          [] e.t = "cls" -> TryRun(e.min, rest, s, i, RunEnd(s, i, e.c), caps)
          [] e.t = "opt" ->
               LET taken == IF HasAt(s, i, e.v)
                            THEN MatchAt(rest, s, i + Len(e.v), caps)
                            ELSE NoMatch
               IN  IF taken.ok THEN taken ELSE MatchAt(rest, s, i, caps)
          [] e.t = "alt" -> TryAlt(e.ps, rest, s, i, caps)
          [] e.t = "notafter" ->
               IF i > Len(e.v) /\ SubSeq(s, i - Len(e.v), i - 1) = e.v
               THEN NoMatch ELSE MatchAt(rest, s, i, caps)
          [] e.t = "bol" ->
               IF i = 1 \/ s[i - 1] = "\n" THEN MatchAt(rest, s, i, caps)
               ELSE NoMatch
          [] e.t = "eol" ->
               IF i = Len(s) + 1 \/ s[i] = "\n" THEN MatchAt(rest, s, i, caps)
               ELSE NoMatch
          [] e.t = "open" ->
               MatchAt(rest, s, i, [caps EXCEPT ![e.g] = << i, i >>])
          [] e.t = "close" ->
               MatchAt(rest, s, i, [caps EXCEPT ![e.g] = << caps[e.g][1], i >>])

TryRun(min, rest, s, i, j, caps) ==
  LET ends == { k \in (i + min)..j : MatchAt(rest, s, k, caps).ok }
  IN  IF ends = {} THEN NoMatch
      ELSE MatchAt(rest, s, CHOOSE k \in ends : \A h \in ends : h <= k, caps)

TryAlt(ps, rest, s, i, caps) ==
  IF ps = << >> THEN NoMatch
  ELSE LET r == MatchAt(Head(ps) \o rest, s, i, caps)
       IN  IF r.ok THEN r ELSE TryAlt(Tail(ps), rest, s, i, caps)

\* The replacement template with its group references filled in.
RECURSIVE Expand(_, _, _)
Expand(repl, s, caps) ==
  IF repl = << >> THEN << >>
  ELSE LET e == Head(repl)
       IN  (IF e.t = "grp" THEN SubSeq(s, caps[e.g][1], caps[e.g][2] - 1)
            ELSE e.v) \o Expand(Tail(repl), s, caps)

\* The positions from i on where pat matches a non-empty piece of s.
MatchPositions(pat, s, i) ==
  { k \in i..Len(s) :
      \E r \in {MatchAt(pat, s, k, NoCaps)} : r.ok /\ r.end > k }

\* re.sub(pat, repl, s) and str.replace: every non-overlapping match, from
\* the left, is replaced; the scan goes on after the match.
RECURSIVE sub_from(_, _, _, _)
sub_from(pat, repl, s, i) ==
  LET hits == MatchPositions(pat, s, i)
  IN  IF hits = {} THEN SubSeq(s, i, Len(s))
      ELSE LET k == CHOOSE h \in hits : \A j \in hits : h <= j
               r == MatchAt(pat, s, k, NoCaps)
           IN  SubSeq(s, i, k - 1) \o Expand(repl, s, r.caps)
                 \o sub_from(pat, repl, s, r.end)

re_sub(pat, repl, s) == sub_from(pat, repl, s, 1)

\* Number of snippets a source text is joined from.
MaxSnippets == 2

\* The source texts joined from n snippets.
Sources(n) ==
  { Flatten([i \in 1..n |-> Snippets[f[i]]]) : f \in [1..n -> DOMAIN Snippets] }

\* generate_manim_code has the LLM's text in hand (line 298) and calls
\* _fix_generated_manim_code on it (line 301).
InitSanitize ==
  /\ \E n \in 1..MaxSnippets : src \in Sources(n)
  /\ code = src
  /\ fixno = 1
  /\ once = << >>
  /\ twice = << >>
  /\ spc = "pass1"
  /\ IdleDetect /\ IdleReconcile /\ IdleLocate /\ IdlePipeline /\ IdleApi /\ IdleJobs

\* One rewrite of lines 310-439: code = re.sub(...) or code.replace(...).
ApplyFix ==
  /\ spc \in {"pass1", "pass2"}
  /\ fixno <= Len(Fixes)
  /\ \E fix \in {Fixes[fixno]} : code' = re_sub(fix.pat, fix.repl, code)
  /\ fixno' = fixno + 1
  /\ UNCHANGED << jobsVars, apiVars, src, once, twice, spc, detectVars, reconVars, locateVars,
                  pipeVars >>

\* return code (line 441), first pass.
ReturnFixed ==
  /\ spc = "pass1"
  /\ fixno = Len(Fixes) + 1
  /\ once' = code
  /\ spc' = "fixed"
  /\ UNCHANGED << jobsVars, apiVars, src, code, fixno, twice, detectVars, reconVars, locateVars,
                  pipeVars >>

\* The fix pass called on its own output.
SanitizeAgain ==
  /\ spc = "fixed"
  /\ code' = once
  /\ fixno' = 1
  /\ spc' = "pass2"
  /\ UNCHANGED << jobsVars, apiVars, src, once, twice, detectVars, reconVars, locateVars,
                  pipeVars >>

\* return code (line 441), second pass.
ReturnFixedTwice ==
  /\ spc = "pass2"
  /\ fixno = Len(Fixes) + 1
  /\ twice' = code
  /\ spc' = "fixed_twice"
  /\ UNCHANGED << jobsVars, apiVars, src, code, fixno, once, detectVars, reconVars, locateVars,
                  pipeVars >>

NextSanitize == ApplyFix \/ ReturnFixed \/ SanitizeAgain \/ ReturnFixedTwice

SpecSanitize == InitSanitize /\ [][NextSanitize]_vars

\* C8: the fix pass is idempotent: applied to its own output it changes
\* nothing.
C8_Idempotent == spc = "fixed_twice" => twice = once

\* The known-bad fragments of the claim, each with the construct flagged in it.
KnownBad ==
  << [fragment |->
         <<"self", ".", "wait", "(", "0", ")">>,
      flagged |-> <<"self", ".", "wait", "(", "0", ")">>],
     [fragment |->
         <<"Dot", "(", "ORIGIN", ",", " ", "radius", "=", "1", ")">>,
      flagged |-> <<"Dot", "(", "ORIGIN", ",">>],
     [fragment |->
         <<"p", ".", "get_vertex_coords", "(", ")">>,
      flagged |-> <<".", "get_vertex_coords", "(", ")">>],
     [fragment |->
         <<"config", ".", "frame_width">>,
      flagged |-> <<"config", ".", "frame_width">>],
     [fragment |->
         <<"GRAY", "_A">>,
      flagged |-> <<"GRAY", "_A">>],
     [fragment |->
         <<"LIGHT_", "GRAY">>,
      flagged |-> <<"LIGHT_", "GRAY">>],
     [fragment |->
         <<"DARK_", "GRAY">>,
      flagged |-> <<"DARK_", "GRAY">>],
     [fragment |->
         <<"TracedPath", "(", "dot", ".", "get_center", ")">>,
      flagged |-> <<"TracedPath", "(">>],
     [fragment |->
         <<"Tex", "(", "x", ")">>,
      flagged |-> <<"Tex", "(">>],
     [fragment |->
         <<"Math", "Tex", "(", "x", ")">>,
      flagged |-> <<"Math", "Tex", "(">>],
     [fragment |->
         <<"Matrix", "(", "x", ")">>,
      flagged |-> <<"Matrix", "(">>],
     [fragment |->
         <<"Sphere", "(", "uv_resolution", "=", "8", ",", " ", "radius",
           "=", "1", ")">>,
      flagged |-> <<"uv_resolution", "=">>],
     [fragment |->
         <<"self", ".", "play", "(", "self", ".", "camera", ".",
           "animate", ".", "scale", "(", "2", ")", ")">>,
      flagged |-> <<"self", ".", "camera", ".", "animate">>],
     [fragment |->
         <<"v", " ", "=", " ", "normal", "ize", "(", "a", ")">>,
      flagged |-> <<"normal", "ize", "(">>],
     [fragment |->
         <<"w", " ", "=", " ", "rotate", "_vector", "(", "a", ")">>,
      flagged |-> <<"rotate", "_vector", "(">>],
     [fragment |->
         <<"x", ".", "get_frame", "(", ")">>,
      flagged |-> <<".", "get_frame", "(", ")">>],
     [fragment |->
         <<"c", ".", "set_stroke", "(", "stroke_", "opacity", "=", "0",
           ".", "5", ")">>,
      flagged |-> <<"stroke_", "opacity", "=">>],
     [fragment |->
         <<"c", ".", "set_stroke", "(", "WHITE", ",", " ", "2", ",", " ",
           "stroke_", "opacity", "=", "0", ".", "5", ")">>,
      flagged |-> <<"stroke_", "opacity", "=">>] >>
\* C9: after the fix pass a known-bad fragment no longer contains the
\* construct flagged in it.
C9_FlaggedConstructGone ==
  spc = "fixed" =>
    \A k \in DOMAIN KnownBad :
      src = KnownBad[k].fragment => ~Occurs(KnownBad[k].flagged, once)


(***************************************************************************)
(* generate_video end to end (src/manim_ai_generator.py:841-889) over the  *)
(* files the job touches.  A file is a record: what it holds, the tree it  *)
(* lies in, its mtime, its size in bytes, the duration of the media in it  *)
(* (`sound`: of its audio track) and the job whose content it is.  Times   *)
(* are whole seconds.                                                      *)
(***************************************************************************)
\* scene_py:    tempdir/manim_ai/scene.py (line 582)
\* rendered:    the .mp4 the renderer writes for this job
\* leftover:    an .mp4 an earlier job left in the output tree
\* final:       output/{output_name}.mp4 (line 654)
\* temp_audio:  the NamedTemporaryFile(suffix='.mp3') (lines 464, 748)
\* temp_output: {final}_temp_audio.mp4 (line 796), _with_audio.mp4 (line 495)
Paths == {"scene_py", "rendered", "leftover", "final", "temp_audio", "temp_output"}

Absent == [kind |-> "absent"]

exists(p) == fs[p] # Absent

\* The job starts when the clock shows JobStart.
JobStart == RecencyWindow

\* Seconds a render that ends by itself takes.
RenderSeconds == 10

\* final_path.stat().st_size < 1000 (line 663), file_size < 1000 (line 714)
MinValidSize == 1000

\* for attempt in range(max_retries), lines 31 and 721
max_retries == 3

RenderedSizes == {MinValidSize - 1, MinValidSize}
RenderedDurations == {min_duration - 1, max_duration + 1}
SpokenDurations == {min_duration - 2, max_duration}

\* Topics of the jobs: one that scores 3D, one that scores 2D.
JobTopics == {TopicPhrases[1], TopicPhrases[5]}

\* What an earlier job left in the output tree: nothing, a file older than
\* the recency window at scan time, or a file written just before this job.
Leftovers ==
  { Absent }
  \cup { [kind |-> "video", tree |-> "output", mtime |-> m,
          size |-> MinValidSize, duration |-> min_duration, sound |-> 0,
          job |-> "earlier"] :
         m \in {JobStart - RecencyWindow, JobStart - 1} }

\* generate_video is called with use_3d None, True or False (line 841).
Init ==
  /\ topic \in JobTopics
  /\ \/ use_3d = FALSE /\ pc = "detect"
     \/ use_3d \in BOOLEAN /\ pc = "elaborate"
  /\ dpc = "idle"
  /\ fs \in { [p \in Paths |-> IF p = "leftover" THEN l ELSE Absent] : l \in Leftovers }
  /\ clock = JobStart
  /\ llm_attempt = 0
  /\ llm_last = [kind |-> "none"]
  /\ response = << >>
  /\ manim = [runs |-> 0, ended |-> "none", stderr |-> ""]
  /\ load_attempt = 0
  /\ narration = "none"
  /\ result = [status |-> "none"]
  /\ IdleReconcile /\ IdleLocate /\ IdleSanitize /\ IdleApi /\ IdleJobs

\* raise: the exception leaves generate_video.
Raise(error) == [status |-> "raised", error |-> error]

\* Lines 853-855: use_3d is None.
AutoDetect ==
  /\ pc = "detect"
  /\ pc' = "elaborate"
  /\ use_3d' = detect_scene_type(topic)
  /\ UNCHANGED << jobsVars, apiVars, topic, dpc, reconVars, locateVars, fixVars,
                  fs, clock, llmVars, manim, load_attempt, narration,
                  result >>

\* A backoff that starts one doubling later: 4 s, 8 s.
wait_time_late(attempt) == (2 ^ (attempt + 1)) * 2

\* wait_time = (2 ** attempt) * 2 (line 43)
wait_time(attempt) == (2 ^ attempt) * 2

\* str(e) of the exceptions generate_content raises, in lexemes.
ErrorTexts ==
  { <<"429", " ", "Too Many Requests">>,
    <<"Resource exhausted">>,
    <<"500", " ", "Internal error">>,
    <<"API key not valid">> }

\* response.text of an answer, in lexemes.
ResponseTexts == { <<"text">>, <<"\n", "text", " ">> }

\* '429' in error_str or 'Resource exhausted' in error_str (line 41)
is_rate_limit(error_str) ==
  Occurs(<<"429">>, error_str) \/ Occurs(<<"Resource exhausted">>, error_str)

\* str.strip(): the text without its leading and trailing whitespace.
RECURSIVE strip(_)
strip(t) ==
  IF t = << >> THEN t
  ELSE IF Head(t) \in {" ", "\n"} THEN strip(Tail(t))
  ELSE IF t[Len(t)] \in {" ", "\n"} THEN strip(SubSeq(t, 1, Len(t) - 1))
  ELSE t

\* _call_gemini_with_retry (lines 31-52): the model answers at this attempt;
\* return response.text.strip().
GeminiAnswers(stage, next) ==
  /\ pc = stage
  /\ \E text \in ResponseTexts :
       /\ llm_last' = [kind |-> "text", v |-> text]
       /\ response' = strip(text)
  /\ pc' = next
  /\ llm_attempt' = 0
  /\ UNCHANGED << jobsVars, apiVars, detectVars, reconVars, locateVars, fixVars, fs, clock,
                  load_attempt, narration, result, manim >>

\* Lines 39-46: a rate-limit error before the last attempt; sleep, then
\* try again.
GeminiRateLimited(stage) ==
  /\ pc = stage
  /\ llm_attempt < max_retries - 1
  /\ \E e \in ErrorTexts :
       /\ is_rate_limit(e)
       /\ llm_last' = [kind |-> "error", v |-> e]
  /\ clock' = clock + wait_time(llm_attempt)
  /\ llm_attempt' = llm_attempt + 1
  /\ UNCHANGED << jobsVars, apiVars, detectVars, reconVars, locateVars, fixVars, pc, fs,
                  response, load_attempt, narration, result, manim >>

\* A last attempt that sleeps once more before it gives up.
GeminiRateLimitExceededAfterWait(stage) ==
  /\ pc = stage
  /\ llm_attempt = max_retries - 1
  /\ \E e \in ErrorTexts :
       /\ is_rate_limit(e)
       /\ llm_last' = [kind |-> "error", v |-> e]
  /\ clock' = clock + wait_time(llm_attempt)
  /\ pc' = "raised"
  /\ result' = Raise("API rate limit exceeded")
  /\ UNCHANGED << jobsVars, apiVars, detectVars, reconVars, locateVars, fixVars, fs,
                  llm_attempt, response, load_attempt, narration,
                  manim >>

\* Lines 47-48: a rate-limit error at the last attempt.
GeminiRateLimitExceeded(stage) ==
  /\ pc = stage
  /\ llm_attempt = max_retries - 1
  /\ \E e \in ErrorTexts :
       /\ is_rate_limit(e)
       /\ llm_last' = [kind |-> "error", v |-> e]
  /\ pc' = "raised"
  /\ result' = Raise("API rate limit exceeded")
  /\ UNCHANGED << jobsVars, apiVars, detectVars, reconVars, locateVars, fixVars, fs, clock,
                  llm_attempt, response, load_attempt, narration,
                  manim >>

\* Any error taken for a rate-limit error: sleep and try again while
\* attempts are left.
GeminiFailsRetried(stage) ==
  /\ pc = stage
  /\ \E e \in ErrorTexts :
       /\ ~ is_rate_limit(e)
       /\ llm_last' = [kind |-> "error", v |-> e]
       /\ IF llm_attempt < max_retries - 1
          THEN /\ clock' = clock + wait_time(llm_attempt)
               /\ llm_attempt' = llm_attempt + 1
               /\ UNCHANGED << pc, result >>
          ELSE /\ pc' = "raised"
               /\ result' = [status |-> "raised", error |-> "Gemini error",
                             cause |-> e]
               /\ UNCHANGED << clock, llm_attempt >>
  /\ UNCHANGED << jobsVars, apiVars, detectVars, reconVars, locateVars, fixVars, fs,
                  response, load_attempt, narration, manim >>

\* Lines 49-50: any other exception is raised again at once (raise e).
GeminiFails(stage) ==
  /\ pc = stage
  /\ \E e \in ErrorTexts :
       /\ ~ is_rate_limit(e)
       /\ llm_last' = [kind |-> "error", v |-> e]
       /\ result' = [status |-> "raised", error |-> "Gemini error",
                     cause |-> e]
  /\ pc' = "raised"
  /\ UNCHANGED << jobsVars, apiVars, detectVars, reconVars, locateVars, fixVars, fs, clock,
                  llm_attempt, response, load_attempt, narration,
                  manim >>

\* elaborate_prompt (lines 83-112)
ElaboratePrompt ==
  \/ GeminiAnswers("elaborate", "generate")
  \/ GeminiRateLimited("elaborate")
  \/ GeminiRateLimitExceeded("elaborate")
  \/ GeminiFails("elaborate")

\* generate_manim_code, lines 114-291: the prompt is built and sent.
GenerateManimCode ==
  \/ GeminiAnswers("generate", "sanitize")
  \/ GeminiRateLimited("generate")
  \/ GeminiRateLimitExceeded("generate")
  \/ GeminiFails("generate")

\* generate_manim_code, lines 293-304: the code is cut out of the answer and
\* _fix_generated_manim_code rewrites it (the rewriting itself is
\* SpecSanitize's subject).
SanitizeCode ==
  /\ pc = "sanitize"
  /\ pc' = "write_scene"
  /\ UNCHANGED << jobsVars, apiVars, detectVars, reconVars, locateVars, fixVars,
                  fs, clock, llmVars, manim, load_attempt, narration,
                  result >>

\* execute_manim, lines 566-583: scene.py is written into the scratch tree.
WriteScene ==
  /\ pc = "write_scene"
  /\ fs' = [fs EXCEPT !["scene_py"] =
              [kind |-> "source", tree |-> "scratch", mtime |-> clock,
               size |-> MinValidSize, duration |-> 0, sound |-> 0,
               job |-> "this"]]
  /\ pc' = "render"
  /\ UNCHANGED << jobsVars, apiVars, detectVars, reconVars, locateVars, fixVars,
                  clock, llmVars, manim, load_attempt, narration, result >>


\* timeout = 120 if use_3d else 60 (line 612)
render_timeout(u) == IF u THEN 120 ELSE 60

\* timeout_used = 180 if use_3d else 120 (line 688)
timeout_used(u) == IF u THEN 180 ELSE 120

\* What the renderer can have put on disk when it exits with code 0:
\* nothing, or one .mp4 in a tree of its choosing.
Renderings ==
  { Absent }
  \cup { [kind |-> "video", tree |-> t, mtime |-> clock + RenderSeconds,
          size |-> s, duration |-> d, sound |-> 0, job |-> "this"] :
         t \in Trees, s \in RenderedSizes, d \in RenderedDurations }

\* A renderer run after which the narration starts at once, the located
\* file being taken for granted.
ManimExitsZeroThenNarrates ==
  /\ pc = "render"
  /\ manim' = [runs |-> manim.runs + 1, ended |-> "zero", stderr |-> ""]
  /\ \E wrote \in Renderings : fs' = [fs EXCEPT !["rendered"] = wrote]
  /\ clock' = clock + RenderSeconds
  /\ pc' = "tts"
  /\ UNCHANGED << jobsVars, apiVars, detectVars, reconVars, locateVars, fixVars,
                  llmVars, load_attempt, narration, result >>

\* Lines 610-626: subprocess.run returns with returncode 0.
ManimExitsZero ==
  /\ pc = "render"
  /\ manim' = [runs |-> manim.runs + 1, ended |-> "zero", stderr |-> ""]
  /\ \E wrote \in Renderings : fs' = [fs EXCEPT !["rendered"] = wrote]
  /\ clock' = clock + RenderSeconds
  /\ pc' = "scan"
  /\ UNCHANGED << jobsVars, apiVars, detectVars, reconVars, locateVars, fixVars,
                  llmVars, load_attempt, narration, result >>

\* result.stderr of a run that ends with an error.
StderrTexts == {"", "NameError: name 'x' is not defined"}

\* A failed run that is started once more before the request gives up.
ManimFailsRetried ==
  /\ pc = "render"
  /\ \E err \in StderrTexts :
       /\ manim' = [runs |-> manim.runs + 1, ended |-> "nonzero",
                    stderr |-> err]
       /\ IF manim.runs = 0
          THEN pc' = "render" /\ result' = result
          ELSE /\ pc' = "raised"
               /\ result' = [status |-> "raised", error |-> "Manim failed",
                             stderr |-> err]
  /\ clock' = clock + RenderSeconds
  /\ UNCHANGED << jobsVars, apiVars, detectVars, reconVars, locateVars, fixVars,
                  fs, llmVars, load_attempt, narration >>

\* Lines 620-624: returncode is not 0;
\* raise Exception(f"Manim failed: {result.stderr}").
ManimFails ==
  /\ pc = "render"
  /\ \E err \in StderrTexts :
       /\ manim' = [runs |-> manim.runs + 1, ended |-> "nonzero",
                    stderr |-> err]
       /\ result' = [status |-> "raised", error |-> "Manim failed",
                     stderr |-> err]
  /\ clock' = clock + RenderSeconds
  /\ pc' = "raised"
  /\ UNCHANGED << jobsVars, apiVars, detectVars, reconVars, locateVars, fixVars,
                  fs, llmVars, load_attempt, narration >>

\* Lines 612-618 and 687-689: the run exceeds the timeout.
ManimTimesOut ==
  /\ pc = "render"
  /\ manim' = [runs |-> manim.runs + 1, ended |-> "timeout", stderr |-> ""]
  /\ clock' = clock + render_timeout(use_3d)
  /\ pc' = "raised"
  /\ result' = [status |-> "raised", error |-> "Manim execution timed out",
                applied |-> render_timeout(use_3d),
                reported |-> timeout_used(use_3d)]
  /\ UNCHANGED << jobsVars, apiVars, detectVars, reconVars, locateVars, fixVars,
                  fs, llmVars, load_attempt, narration >>

\* The .mp4 files on disk.
Mp4Files == { p \in Paths : fs[p].kind \in {"video", "muxed"} }

\* Every list the two rglob calls of lines 635-643 can yield over the files
\* on disk: the scratch tree first, any order within a tree.
Listings ==
  { [i \in DOMAIN s |-> [path |-> s[i], tree |-> fs[s[i]].tree,
                          mtime |-> fs[s[i]].mtime]] :
      s \in { u \in [1..Cardinality(Mp4Files) -> Mp4Files] :
                /\ \A i, j \in DOMAIN u : i # j => u[i] # u[j]
                /\ \A i, j \in DOMAIN u :
                     (i < j /\ fs[u[i]].tree = "output")
                        => fs[u[j]].tree = "output" } }

\* Lines 635-648: both trees are listed and the list is filtered.
ScanForVideos ==
  /\ pc = "scan"
  /\ \E listing \in Listings :
       /\ video_files' = listing
       /\ recent_videos' = filter_recent(clock, listing)
  /\ current_time' = clock
  /\ pc' = "select"
  /\ UNCHANGED << jobsVars, apiVars, detectVars, reconVars, fixVars, latest_video, lpc,
                  fs, clock, llmVars, manim, load_attempt, narration,
                  result >>

\* Lines 650-660: the newest recent file is copied to the canonical path;
\* shutil.copy2 keeps the content and the mtime.
CopyLatest ==
  /\ pc = "select"
  /\ recent_videos # << >>
  /\ latest_video' = max_by_mtime(recent_videos)
  /\ fs' = [fs EXCEPT !["final"] =
              [fs[max_by_mtime(recent_videos).path] EXCEPT !.tree = "output"]]
  /\ pc' = "validate"
  /\ UNCHANGED << jobsVars, apiVars, detectVars, reconVars, fixVars,
                  video_files, current_time, recent_videos, lpc,
                  clock, llmVars, manim, load_attempt, narration, result >>

\* A scan that found nothing recent and reports how many recent files it
\* had, not how many files it looked at.
NoRecentVideoCountsRecent ==
  /\ pc = "select"
  /\ recent_videos = << >>
  /\ latest_video' = "NotFound"
  /\ pc' = "raised"
  /\ result' = [status |-> "raised", error |-> "No recent video file found",
                checked |-> Len(recent_videos)]
  /\ UNCHANGED << jobsVars, apiVars, detectVars, reconVars, fixVars,
                  video_files, current_time, recent_videos, lpc,
                  fs, clock, llmVars, manim, load_attempt, narration >>

\* Lines 674-685: raise Exception(f"No recent video file found. Checked
\* {len(video_files)} total mp4 files.").
NoRecentVideo ==
  /\ pc = "select"
  /\ recent_videos = << >>
  /\ latest_video' = "NotFound"
  /\ pc' = "raised"
  /\ result' = [status |-> "raised", error |-> "No recent video file found",
                checked |-> Len(video_files)]
  /\ UNCHANGED << jobsVars, apiVars, detectVars, reconVars, fixVars,
                  video_files, current_time, recent_videos, lpc,
                  fs, clock, llmVars, manim, load_attempt, narration >>

\* Lines 663-664: the copy is missing or shorter than 1000 bytes.
CopyInvalid ==
  /\ pc = "validate"
  /\ (~ exists("final") \/ fs["final"].size < MinValidSize)
  /\ pc' = "raised"
  /\ result' = Raise("Copied file is invalid")
  /\ UNCHANGED << jobsVars, apiVars, detectVars, reconVars, locateVars, fixVars,
                  fs, clock, llmVars, manim, load_attempt, narration >>

\* A copy that is returned without looking at its size.
CopyValidUnchecked ==
  /\ pc = "validate"
  /\ exists("final")
  /\ pc' = "narrate"
  /\ UNCHANGED << jobsVars, apiVars, detectVars, reconVars, locateVars, fixVars,
                  fs, clock, llmVars, manim, load_attempt, narration,
                  result >>

\* Lines 666-673: execute_manim returns str(final_path).
CopyValid ==
  /\ pc = "validate"
  /\ exists("final") /\ fs["final"].size >= MinValidSize
  /\ pc' = "narrate"
  /\ UNCHANGED << jobsVars, apiVars, detectVars, reconVars, locateVars, fixVars,
                  fs, clock, llmVars, manim, load_attempt, narration,
                  result >>

\* extract_narration (lines 443-452): the joined "# NARRATION:" texts, or the
\* default sentence when the code has none; never empty, so line 873 holds.
ExtractNarration ==
  /\ pc = "narrate"
  /\ narration' \in {"from the NARRATION comments",
                     "Watch this educational animation."}
  /\ pc' = "check_video"
  /\ UNCHANGED << jobsVars, apiVars, detectVars, reconVars, locateVars, fixVars,
                  fs, clock, llmVars, manim, load_attempt, result >>

\* add_audio_to_video, lines 706-718: the file exists and has 1000 bytes or
\* more (it passed line 663); sleep one second.
CheckVideo ==
  /\ pc = "check_video"
  /\ IF exists("final") /\ fs["final"].size >= MinValidSize
     THEN pc' = "load" /\ clock' = clock + 1 /\ result' = result
     ELSE pc' = "raised" /\ clock' = clock
          /\ result' = Raise("Video file too small")
  /\ load_attempt' = 0
  /\ UNCHANGED << jobsVars, apiVars, detectVars, reconVars, locateVars, fixVars,
                  fs, llmVars, manim, narration >>


\* Lines 721-730: VideoFileClip opens the file at this attempt.
LoadVideo ==
  /\ pc = "load"
  /\ Dv' = fs["final"].duration
  /\ video' = VideoFileClip(fs["final"].duration)
  /\ pc' = "tts"
  /\ UNCHANGED << jobsVars, apiVars, detectVars, locateVars, fixVars, Da, audio, target_duration,
                  rpc, fs, clock, llmVars, manim, load_attempt, narration,
                  result >>

\* Lines 731-741: the attempt fails before the last one; sleep 2 seconds.
LoadVideoRetry ==
  /\ pc = "load"
  /\ load_attempt < max_retries - 1
  /\ load_attempt' = load_attempt + 1
  /\ clock' = clock + 2
  /\ UNCHANGED << jobsVars, apiVars, detectVars, reconVars, locateVars, fixVars,
                  pc, fs, llmVars, manim, narration, result >>

\* A fallback that is taken as soon as one retry has failed.
LoadVideoFallbackEarly ==
  /\ pc = "load"
  /\ load_attempt >= 1
  /\ pc' = "ff_tts"
  /\ UNCHANGED << jobsVars, apiVars, detectVars, reconVars, locateVars, fixVars,
                  fs, clock, llmVars, manim, load_attempt, narration,
                  result >>

\* Lines 735-739: the last attempt fails; _add_audio_with_ffmpeg takes over.
LoadVideoFallback ==
  /\ pc = "load"
  /\ load_attempt = max_retries - 1
  /\ pc' = "ff_tts"
  /\ UNCHANGED << jobsVars, apiVars, detectVars, reconVars, locateVars, fixVars,
                  fs, clock, llmVars, manim, load_attempt, narration,
                  result >>

\* The .mp3 that tts.save writes.
Spoken(d) ==
  [kind |-> "audio", tree |-> "temp", mtime |-> clock, size |-> MinValidSize,
   duration |-> d, sound |-> d, job |-> "this"]

\* NamedTemporaryFile(delete=False) has created the file, gTTS raised: the
\* file stays, empty.
Unspoken ==
  [kind |-> "audio", tree |-> "temp", mtime |-> clock, size |-> 0,
   duration |-> 0, sound |-> 0, job |-> "this"]

\* Lines 748-753: the narration is synthesized and opened.
Synthesize ==
  /\ pc = "tts"
  /\ \E d \in SpokenDurations :
       /\ fs' = [fs EXCEPT !["temp_audio"] = Spoken(d)]
       /\ Da' = d
       /\ audio' = AudioFileClip(d)
  /\ pc' = "match"
  /\ UNCHANGED << jobsVars, apiVars, detectVars, locateVars, fixVars, Dv, video, target_duration,
                  rpc, clock, llmVars, manim, load_attempt, narration, result >>

\* Lines 748-750: gTTS raises; nothing in add_audio_to_video catches it.
SynthesizeFails ==
  /\ pc = "tts"
  /\ fs' = [fs EXCEPT !["temp_audio"] = Unspoken]
  /\ pc' = "raised"
  /\ result' = Raise("gTTS error")
  /\ UNCHANGED << jobsVars, apiVars, detectVars, reconVars, locateVars, fixVars,
                  clock, llmVars, manim, load_attempt, narration >>

\* Lines 755-793: target, trimmed or extended video, trimmed or padded
\* audio, both forced to the target.
MatchDurations ==
  /\ pc = "match"
  /\ target_duration' = TargetDuration(video.duration)
  /\ video' = set_duration(MatchVideo(video), TargetDuration(video.duration))
  /\ audio' = set_duration(MatchAudio(audio, TargetDuration(video.duration)),
                           TargetDuration(video.duration))
  /\ pc' = "mux"
  /\ UNCHANGED << jobsVars, apiVars, detectVars, locateVars, fixVars, Dv, Da, rpc,
                  fs, clock, llmVars, manim, load_attempt, narration,
                  result >>

\* The file write_videofile produces from the two clips.
Muxed(v, a) ==
  [kind |-> "muxed", tree |-> "output", mtime |-> clock, size |-> MinValidSize,
   duration |-> v, sound |-> a, job |-> fs["final"].job]

\* Lines 798-814: write_videofile writes {final}_temp_audio.mp4.
WriteMuxed ==
  /\ pc = "mux"
  /\ fs' = [fs EXCEPT !["temp_output"] = Muxed(video.duration, audio.duration)]
  /\ pc' = "remove"
  /\ UNCHANGED << jobsVars, apiVars, detectVars, reconVars, locateVars, fixVars,
                  clock, llmVars, manim, load_attempt, narration, result >>

\* A mux failure that is noted and passed over: the request goes on to
\* return the video as it is.
WriteMuxedFailsQuietly ==
  /\ pc = "mux"
  /\ fs' = [fs EXCEPT !["temp_output"] = Absent]
  /\ pc' = "return"
  /\ result' = Raise("write_videofile error")
  /\ UNCHANGED << jobsVars, apiVars, detectVars, reconVars, locateVars, fixVars,
                  clock, llmVars, manim, load_attempt, narration >>

\* A mux failure after which the merge is handed to ffmpeg, as a failed
\* load is.
WriteMuxedFailsThenFallback ==
  /\ pc = "mux"
  /\ fs' = [fs EXCEPT !["temp_output"] = Absent]
  /\ pc' = "ff_tts"
  /\ UNCHANGED << jobsVars, apiVars, detectVars, reconVars, locateVars, fixVars,
                  clock, llmVars, manim, load_attempt, narration, result >>

\* Lines 827-839: write_videofile raises; what it wrote of temp_output is
\* removed, the exception is raised again.
WriteMuxedFails ==
  /\ pc = "mux"
  /\ fs' = [fs EXCEPT !["temp_output"] = Absent]
  /\ pc' = "raised"
  /\ result' = Raise("write_videofile error")
  /\ UNCHANGED << jobsVars, apiVars, detectVars, reconVars, locateVars, fixVars,
                  clock, llmVars, manim, load_attempt, narration >>

\* os.remove(video_path) when it exists (lines 817-818 and 544-545).
RemoveAt(at, next) ==
  /\ pc = at
  /\ fs' = [fs EXCEPT !["final"] = Absent]
  /\ pc' = next
  /\ UNCHANGED << jobsVars, apiVars, detectVars, reconVars, locateVars, fixVars,
                  clock, llmVars, manim, load_attempt, narration, result >>

\* os.rename(temp_output, video_path) (lines 819 and 546).
RenameAt(at, next) ==
  /\ pc = at
  /\ fs' = [fs EXCEPT !["final"] = fs["temp_output"],
                      !["temp_output"] = Absent]
  /\ pc' = next
  /\ UNCHANGED << jobsVars, apiVars, detectVars, reconVars, locateVars, fixVars,
                  clock, llmVars, manim, load_attempt, narration, result >>

\* Line 819 raises OSError after line 818 removed the video: the handler of
\* lines 829-839 removes temp_output and raises the error again.
RenameFails ==
  /\ pc = "rename"
  /\ fs' = [fs EXCEPT !["temp_output"] = Absent]
  /\ pc' = "raised"
  /\ result' = Raise("rename error")
  /\ UNCHANGED << jobsVars, apiVars, detectVars, reconVars, locateVars, fixVars,
                  clock, llmVars, manim, load_attempt, narration >>

\* Line 544 raises OSError after line 543 removed the video; nothing in
\* _add_audio_with_ffmpeg catches it.
FfRenameFails ==
  /\ pc = "ff_rename"
  /\ pc' = "raised"
  /\ result' = Raise("rename error")
  /\ UNCHANGED << jobsVars, apiVars, detectVars, reconVars, locateVars, fixVars,
                  fs, clock, llmVars, manim, load_attempt, narration >>

\* os.unlink of the temp audio (lines 821-825 and 549-553).
UnlinkAt(at, next) ==
  /\ pc = at
  /\ fs' = [fs EXCEPT !["temp_audio"] = Absent]
  /\ pc' = next
  /\ UNCHANGED << jobsVars, apiVars, detectVars, reconVars, locateVars, fixVars,
                  clock, llmVars, manim, load_attempt, narration, result >>

\* Lines 816-819.
ReplaceOriginal == RemoveAt("remove", "rename") \/ RenameAt("rename", "unlink")

\* Lines 821-825.
CleanupTempAudio == UnlinkAt("unlink", "return")


\* _add_audio_with_ffmpeg, lines 463-468: audio_path is None.
FfSynthesize ==
  /\ pc = "ff_tts"
  /\ \E d \in SpokenDurations :
       /\ fs' = [fs EXCEPT !["temp_audio"] = Spoken(d)]
       /\ Da' = d
  /\ pc' = "ff_merge"
  /\ UNCHANGED << jobsVars, apiVars, detectVars, locateVars, fixVars, Dv, video, audio,
                  target_duration, rpc, clock, llmVars, manim, load_attempt,
                  narration, result >>

\* Lines 464-467: gTTS raises.
FfSynthesizeFails ==
  /\ pc = "ff_tts"
  /\ fs' = [fs EXCEPT !["temp_audio"] = Unspoken]
  /\ pc' = "raised"
  /\ result' = Raise("gTTS error")
  /\ UNCHANGED << jobsVars, apiVars, detectVars, reconVars, locateVars, fixVars,
                  clock, llmVars, manim, load_attempt, narration >>

\* Lines 498-532: -shortest when the two are less than a second apart, apad
\* to the video when the video is longer, tpad to the audio otherwise.
ffmpeg_duration(video_duration, audio_duration) ==
  IF video_duration = audio_duration
  THEN Min2(video_duration, audio_duration)
  ELSE IF video_duration > audio_duration THEN video_duration
  ELSE audio_duration

\* Lines 470-536: ffprobe reads both durations, ffmpeg writes
\* {final}_with_audio.mp4.
FfMerge ==
  /\ pc = "ff_merge"
  /\ Dv' = fs["final"].duration
  /\ fs' = [fs EXCEPT !["temp_output"] =
              Muxed(ffmpeg_duration(fs["final"].duration, Da),
                    ffmpeg_duration(fs["final"].duration, Da))]
  /\ pc' = "ff_remove"
  /\ UNCHANGED << jobsVars, apiVars, detectVars, locateVars, fixVars, Da, video, audio,
                  target_duration, rpc, clock, llmVars, manim, load_attempt,
                  narration, result >>

\* Lines 537-541: ffmpeg exits with a code other than 0.
FfMergeFails ==
  /\ pc = "ff_merge"
  /\ pc' = "raised"
  /\ result' = Raise("FFmpeg merge failed")
  /\ UNCHANGED << jobsVars, apiVars, detectVars, reconVars, locateVars, fixVars,
                  fs, clock, llmVars, manim, load_attempt, narration >>

\* Lines 543-546.
FfReplaceOriginal ==
  RemoveAt("ff_remove", "ff_rename") \/ RenameAt("ff_rename", "ff_unlink")

\* Lines 548-553.
FfCleanupTempAudio == UnlinkAt("ff_unlink", "return")

\* generate_video, lines 876-889.
Return ==
  /\ pc = "return"
  /\ pc' = "done"
  /\ result' = [status |-> "returned", video_path |-> "final",
                narration |-> narration, use_3d |-> use_3d]
  /\ UNCHANGED << jobsVars, apiVars, detectVars, reconVars, locateVars, fixVars,
                  fs, clock, llmVars, manim, load_attempt, narration >>

Next ==
  \/ AutoDetect \/ ElaboratePrompt \/ GenerateManimCode \/ SanitizeCode
  \/ WriteScene
  \/ ManimExitsZero \/ ManimFails \/ ManimTimesOut
  \/ ScanForVideos \/ CopyLatest \/ NoRecentVideo \/ CopyInvalid \/ CopyValid
  \/ ExtractNarration \/ CheckVideo
  \/ LoadVideo \/ LoadVideoRetry \/ LoadVideoFallback
  \/ Synthesize \/ SynthesizeFails \/ MatchDurations
  \/ WriteMuxed \/ WriteMuxedFails \/ ReplaceOriginal \/ RenameFails
  \/ CleanupTempAudio
  \/ FfSynthesize \/ FfSynthesizeFails \/ FfMerge \/ FfMergeFails
  \/ FfReplaceOriginal \/ FfRenameFails \/ FfCleanupTempAudio \/ Return

Spec == Init /\ [][Next]_vars

(***************************************************************************)
(* POST /api/generate (src/app.py:39-95).                                  *)
(***************************************************************************)
\* len(user_prompt) < 10 (app.py line 59)
MinTextLength == 10

\* Values of data['text'] in the requests: empty, whitespace only, short,
\* nine characters once trimmed, ten characters once trimmed, longer.
Texts ==
  { << >>,
    <<" ", "\n">>,
    <<" ">> \o TopicPhrases[1] \o <<" ">>,
    <<" ">> \o JoinSpace(<< TopicPhrases[1], TopicPhrases[7] >>),
    <<" ">> \o JoinSpace(<< TopicPhrases[2], TopicPhrases[5] >>) \o <<"\n">>,
    TopicPhrases[3] }

\* request.get_json(): null, an object without 'text', an object with it.
Bodies ==
  { [kind |-> "null"], [kind |-> "no_text"] }
  \cup { [kind |-> "text", text |-> t] : t \in Texts }

\* str(uuid.uuid4()) (line 63)
video_id == "id1"

\* The files, the clock and the counters of the generator before a job.
PipelineAtRest ==
  /\ dpc = "idle"
  /\ fs \in { [p \in Paths |-> IF p = "leftover" THEN l ELSE Absent] :
              l \in Leftovers }
  /\ clock = JobStart
  /\ llm_attempt = 0
  /\ llm_last = [kind |-> "none"]
  /\ response = << >>
  /\ manim = [runs |-> 0, ended |-> "none", stderr |-> ""]
  /\ load_attempt = 0
  /\ narration = "none"
  /\ result = [status |-> "none"]
  /\ IdleReconcile /\ IdleLocate /\ IdleSanitize /\ IdleJobs

\* A request has arrived at the endpoint; the generator has not been called.
InitRequest ==
  /\ apc = "received"
  /\ data \in Bodies
  /\ generation_status = << >>
  /\ http = 0
  /\ download = [id |-> "none", code |-> 0, file |-> Absent]
  /\ topic = << >> /\ use_3d = FALSE /\ pc = "idle"
  /\ PipelineAtRest

\* The request arrives at the endpoint, or generate_video is called by a
\* program of its own (src/test_topics.py:14, the __main__ block).
InitApi == InitRequest \/ Init

\* Lines 51-52: if not data or 'text' not in data.
ApiNoText ==
  /\ apc = "received"
  /\ data.kind \in {"null", "no_text"}
  /\ http' = 400
  /\ apc' = "responded"
  /\ UNCHANGED << jobsVars, download, data, generation_status, detectVars, reconVars, locateVars,
                  fixVars, pipeVars >>

\* Lines 54-57: user_prompt = data['text'].strip() is empty.
ApiEmptyText ==
  /\ apc = "received"
  /\ data.kind = "text"
  /\ strip(data.text) = << >>
  /\ http' = 400
  /\ apc' = "responded"
  /\ UNCHANGED << jobsVars, download, data, generation_status, detectVars, reconVars, locateVars,
                  fixVars, pipeVars >>

\* Lines 59-60: len(user_prompt) < 10.
ApiTextTooShort ==
  /\ apc = "received"
  /\ data.kind = "text"
  /\ strip(data.text) # << >>
  /\ Len(strip(data.text)) < MinTextLength
  /\ http' = 400
  /\ apc' = "responded"
  /\ UNCHANGED << jobsVars, download, data, generation_status, detectVars, reconVars, locateVars,
                  fixVars, pipeVars >>

\* Lines 62-73: the entry 'processing' is stored and
\* generator.generate_video(user_prompt, output_name=...) is called, with
\* use_3d left to the detection.
ApiAccept ==
  /\ apc = "received"
  /\ data.kind = "text"
  /\ Len(strip(data.text)) >= MinTextLength
  /\ generation_status' = (video_id :> [status |-> "processing"])
  /\ topic' = strip(data.text)
  /\ pc' = "detect"
  /\ apc' = "processing"
  /\ UNCHANGED << jobsVars, download, data, http, use_3d, dpc, reconVars, locateVars, fixVars,
                  fs, clock, llmVars, load_attempt, narration, result,
                  manim >>

\* Lines 75-91: generate_video returned; the entry becomes 'completed'.
ApiCompleted ==
  /\ apc = "processing"
  /\ pc = "done"
  /\ generation_status' =
       (video_id :> [status |-> "completed",
                     video_path |-> result.video_path,
                     narration |-> result.narration])
  /\ http' = 200
  /\ apc' = "responded"
  /\ UNCHANGED << jobsVars, download, data, detectVars, reconVars, locateVars, fixVars,
                  pipeVars >>

\* Lines 93-95: generate_video raised; the answer is 500 and the entry is
\* left as it was.
ApiFailed ==
  /\ apc = "processing"
  /\ pc = "raised"
  /\ http' = 500
  /\ apc' = "responded"
  /\ UNCHANGED << jobsVars, download, data, generation_status, detectVars, reconVars, locateVars,
                  fixVars, pipeVars >>

\* The ids a client asks for: the one of the request and one never given.
AskedIds == {video_id, "id0"}

\* A download that looks for the file of the id and not at its status.
ApiDownloadIfFileExists ==
  /\ apc # "idle"
  /\ \E id \in AskedIds :
       download' =
         IF id \notin DOMAIN generation_status
         THEN [id |-> id, code |-> 404, file |-> Absent]
         ELSE IF ~ exists("final")
         THEN [id |-> id, code |-> 404, file |-> Absent]
         ELSE [id |-> id, code |-> 200, file |-> fs["final"]]
  /\ UNCHANGED << jobsVars, apc, data, generation_status, http, detectVars,
                  reconVars, locateVars, fixVars, pipeVars >>

\* download_video (lines 107-129), called at any moment after a request has
\* arrived: 404 for an id that has no entry, 400 while the status is not
\* 'completed', 404 when the file of video_path is missing, else the file.
ApiDownload ==
  /\ apc # "idle"
  /\ \E id \in AskedIds :
       download' =
         IF id \notin DOMAIN generation_status
         THEN [id |-> id, code |-> 404, file |-> Absent]
         ELSE IF generation_status[id].status # "completed"
         THEN [id |-> id, code |-> 400, file |-> Absent]
         ELSE IF ~ exists(generation_status[id].video_path)
         THEN [id |-> id, code |-> 404, file |-> Absent]
         ELSE [id |-> id, code |-> 200,
               file |-> fs[generation_status[id].video_path]]
  /\ UNCHANGED << jobsVars, apc, data, generation_status, http, detectVars,
                  reconVars, locateVars, fixVars, pipeVars >>

NextApi ==
  \/ ApiNoText \/ ApiEmptyText \/ ApiTextTooShort \/ ApiAccept
  \/ ApiCompleted \/ ApiFailed \/ ApiDownload
  \/ Next

SpecApi == InitApi /\ [][NextApi]_vars

(***************************************************************************)
(* extract_narration (src/manim_ai_generator.py:443-452).  The source is a *)
(* sequence of lexemes; the marker, a quote, a blank and the newline are   *)
(* lexemes of their own.                                                   *)
(***************************************************************************)
Marker == "# NARRATION:"

DefaultNarration == <<"Watch this educational animation.">>

\* Lines a generated source is made of: plain code, an indented quoted
\* annotation, an unquoted one with a trailing blank, a marker with nothing
\* after it, one with an empty pair of quotes, a line with two markers, an
\* annotation behind code with a blank inside the quotes, an empty line.
NarrationLines ==
  { <<"self.wait(1)">>,
    <<" ", Marker, " ", "\"", "a", "\"">>,
    <<Marker, " ", "b", " ">>,
    <<Marker>>,
    <<Marker, " ", "\"", "\"">>,
    <<Marker, "a", " ", Marker, "b">>,
    <<"x = 1", " ", Marker, "'", " ", "a", "'">>,
    << >> }

\* Number of lines of a source.
MaxLines == 3

\* str.join: the parts with sep between them.
RECURSIVE join(_, _)
join(sep, parts) ==
  IF parts = << >> THEN << >>
  ELSE IF Len(parts) = 1 THEN parts[1]
  ELSE parts[1] \o sep \o join(sep, Tail(parts))

\* The sources of n lines.
NarrationSources(n) ==
  IF n = 0 THEN { << >> }
  ELSE { join(<<"\n">>, ls) : ls \in [1..n -> NarrationLines] }

\* str.split(sep) for a separator that is one lexeme.
RECURSIVE split(_, _)
split(s, sep) ==
  IF sep \notin Range(s) THEN << s >>
  ELSE LET i == CHOOSE k \in DOMAIN s :
                  s[k] = sep /\ \A j \in 1..(k - 1) : s[j] # sep
       IN  << SubSeq(s, 1, i - 1) >> \o split(SubSeq(s, i + 1, Len(s)), sep)

\* str.strip('"\''): leading and trailing quote characters removed.
RECURSIVE strip_quotes(_)
strip_quotes(t) ==
  IF t = << >> THEN t
  ELSE IF Head(t) \in {"\"", "'"} THEN strip_quotes(Tail(t))
  ELSE IF t[Len(t)] \in {"\"", "'"}
       THEN strip_quotes(SubSeq(t, 1, Len(t) - 1))
  ELSE t

\* Line 447: '# NARRATION:' in line.
HasMarker(line) == Marker \in Range(line)

\* Line 448: line.split('# NARRATION:')[1].strip().strip('"\'')
narration_text(line) == strip_quotes(strip(split(line, Marker)[2]))

\* Lines 445-449: the texts of the marker lines, in source order.
RECURSIVE narration_lines(_)
narration_lines(lines) ==
  IF lines = << >> THEN << >>
  ELSE (IF HasMarker(Head(lines))
        THEN << narration_text(Head(lines)) >> ELSE << >>)
       \o narration_lines(Tail(lines))

\* Lines 451-452.
extract_narration(source) ==
  LET joined == join(<<" ">>, narration_lines(split(source, "\n")))
  IN  IF joined # << >> THEN joined ELSE DefaultNarration

InitNarration ==
  /\ \E n \in 0..MaxLines : code \in NarrationSources(n)
  /\ src = << >> /\ fixno = 0 /\ once = << >> /\ twice = << >>
  /\ spc = "extract"
  /\ IdleDetect /\ IdleReconcile /\ IdleLocate /\ IdlePipeline /\ IdleApi /\ IdleJobs

\* generate_video, line 873: narration = self.extract_narration(manim_code).
ExtractNarrationOf ==
  /\ spc = "extract"
  /\ narration' = extract_narration(code)
  /\ spc' = "extracted"
  /\ UNCHANGED << jobsVars, apiVars, detectVars, reconVars, locateVars,
                  src, code, fixno, once, twice,
                  pc, fs, clock, llmVars, load_attempt, result, manim >>

NextNarration == ExtractNarrationOf

SpecNarration == InitNarration /\ [][NextNarration]_vars

\* generate_video has returned its result.
Completed == pc = "done"

\* The files of this job other than the final artifact.
Intermediates == {"scene_py", "rendered", "temp_audio", "temp_output"}

\* C10: after generate_video completes successfully, the only artifact of
\* the job left on disk is the muxed file at output/{output_name}.mp4: the
\* scratch scene.py, the renderer's own output video, the synthesized temp
\* audio and the temp muxed file are all absent.
C10_OnlyFinalArtifactRemains ==
  Completed =>
    /\ fs["final"].kind = "muxed"
    /\ \A p \in Intermediates : ~ exists(p)


\* The stage a position of generate_video belongs to, numbered in the order
\* of lines 862-889: 1 elaborate, 2 generate source, 3 sanitize, 4 execute
\* renderer, 5 locate artifact, 6 synthesize narration, 7 reconcile
\* durations and mux, 8 return.  Detection precedes them all.
StageOf(p) ==
  CASE p = "detect" -> 0
    [] p = "elaborate" -> 1
    [] p = "generate" -> 2
    [] p = "sanitize" -> 3
    [] p \in {"write_scene", "render"} -> 4
    [] p \in {"scan", "select", "validate"} -> 5
    [] p \in {"narrate", "check_video", "load", "tts", "ff_tts"} -> 6
    [] p \in {"match", "mux", "remove", "rename", "unlink",
              "ff_merge", "ff_remove", "ff_rename", "ff_unlink"} -> 7
    [] p \in {"return", "done"} -> 8

\* The step invokes the speech engine (gTTS, lines 749-750 and 465-467).
SpeechInvoked == pc \in {"tts", "ff_tts"} /\ pc' # pc

\* C11: the stages of generate_video start in the order elaborate, generate
\* source, sanitize, execute renderer, locate artifact, synthesize narration,
\* reconcile and mux, return: every step stays in its stage, enters the next
\* one or raises; and the speech engine is invoked only when the located
\* video file exists at the canonical path.
C11_StagesInOrder ==
  [][ /\ pc' = "raised" \/ StageOf(pc') \in {StageOf(pc), StageOf(pc) + 1}
      /\ SpeechInvoked => exists("final") ]_vars

\* C11 witness: a run went through all stages and returned, with narration
\* synthesized on the primary path.
C11_Witness ==
  /\ pc = "done"
  /\ result.status = "returned"
  /\ target_duration > 0
  /\ fs["final"].kind = "muxed"


\* C12: a fatal error raised by a stage of generate_video aborts the
\* request: the step that raises ends the run without a result record (no
\* video_path), and no step is taken once an error has been raised.
C12_FatalErrorAborts ==
  [][ /\ result.status # "raised"
      /\ result'.status = "raised" =>
           /\ pc' = "raised"
           /\ "video_path" \notin DOMAIN result' ]_vars

\* C12 witness: the mux failed and the request ended with that error.
C12_Witness ==
  /\ pc = "raised"
  /\ result.error = "write_videofile error"
  /\ exists("final")


\* Every step of generate_video moves its position or one of the two
\* attempt counters.
progress == << pc, llm_attempt, load_attempt >>

\* A step of _call_gemini_with_retry, in either of its two invocations.
LlmStep == ElaboratePrompt \/ GenerateManimCode

\* Every call of generate_content comes back with an answer or an
\* exception, and the sleep between two attempts ends.
FairSpec == Spec /\ WF_progress(LlmStep)

\* The positions inside _call_gemini_with_retry: the call made by
\* elaborate_prompt (line 108) and the one by generate_manim_code (line 291).
LlmStages == {"elaborate", "generate"}

\* The call of this step ended with a rate-limit error.
RateLimitedNow == llm_last'.kind = "error" /\ is_rate_limit(llm_last'.v)

\* What a step taken inside _call_gemini_with_retry does: one call, at
\* attempt 0, 1 or 2.
RetryStep ==
  pc \in LlmStages =>
    /\ llm_attempt <= max_retries - 1
    /\ llm_last'.kind \in {"text", "error"}
    /\ llm_last'.kind = "text" =>
         /\ pc' \notin {pc, "raised"}
         /\ response' = strip(llm_last'.v)
    /\ RateLimitedNow /\ llm_attempt < max_retries - 1 =>
         /\ pc' = pc
         /\ llm_attempt' = llm_attempt + 1
    /\ RateLimitedNow /\ llm_attempt = max_retries - 1 =>
         /\ pc' = "raised"
         /\ result'.error = "API rate limit exceeded"
         /\ clock' = clock

NoRetryStep ==
  /\ (pc \in LlmStages /\ llm_last'.kind = "error" /\ ~ RateLimitedNow) =>
       /\ pc' = "raised"
       /\ clock' = clock
       /\ llm_attempt' = llm_attempt
       /\ result'.cause = llm_last'.v
  /\ pc \notin LlmStages => UNCHANGED << llm_attempt, llm_last, response >>

\* C14: an LLM call that fails with an error that is no rate-limit signal
\* ends the invocation at once: no wait, no further call, and the original
\* error is what the caller gets; and no step outside
\* _call_gemini_with_retry calls the LLM or touches its attempt counter.
C14_OnlyRateLimitRetried == [][NoRetryStep]_vars

\* C14 witness: after one rate-limited call the second call failed with a
\* server error, which was raised without a second wait.
C14_Witness ==
  /\ pc = "raised"
  /\ result.error = "Gemini error"
  /\ result.cause = <<"500", " ", "Internal error">>
  /\ llm_attempt = 1
  /\ clock = JobStart + wait_time(0)


\* C15: manim is started at most once per request; after a non-zero exit
\* code or a timeout the request has failed with an error (which carries the
\* captured stderr when the exit code was not 0), the locate step has not
\* run and nothing was copied to output/{output_name}.mp4.
C15_RendererNeverRetried ==
  /\ manim.runs <= 1
  /\ manim.ended \in {"nonzero", "timeout"} =>
       /\ pc = "raised"
       /\ result.status = "raised"
       /\ manim.ended = "nonzero" =>
            result.error = "Manim failed" /\ result.stderr = manim.stderr
       /\ manim.ended = "timeout" =>
            result.error = "Manim execution timed out"
       /\ video_files = << >> /\ current_time = 0
       /\ ~ exists("final")

\* C15 witness: manim exited with a non-zero code and a traceback on
\* stderr; scene.py is on disk, the request has failed.
C15_Witness ==
  /\ manim.runs = 1
  /\ manim.ended = "nonzero"
  /\ manim.stderr # ""
  /\ pc = "raised"
  /\ exists("scene_py")


\* The positions inside _add_audio_with_ffmpeg.
FallbackPositions == {"ff_tts", "ff_merge", "ff_remove", "ff_rename",
                      "ff_unlink"}

\* The positions of add_audio_to_video after the video has been opened.
PrimaryPositions == {"tts", "match", "mux", "remove", "rename", "unlink"}

\* One step of the request as C16 allows it.
LoadStep ==
  /\ load_attempt' < max_retries
  /\ pc = "load" =>
       /\ pc' \in {"load", "tts", "ff_tts"}
       /\ pc' = "load" =>
            /\ load_attempt < max_retries - 1
            /\ load_attempt' = load_attempt + 1
            /\ clock' = clock + 2
       /\ pc' = "ff_tts" => load_attempt = max_retries - 1
       /\ pc' = "tts" => load_attempt' = load_attempt /\ clock' = clock
  /\ pc' \in FallbackPositions => pc \in FallbackPositions \cup {"load"}
  /\ pc \in FallbackPositions =>
       /\ pc' \in FallbackPositions \cup {"return", "raised"}
       /\ UNCHANGED << video, audio, target_duration >>
  /\ pc \in {"return", "done", "raised"} =>
       pc' \in {"return", "done", "raised"}

\* C16: the video is opened at most 3 times, 2 seconds apart; the FFmpeg
\* fallback is entered exactly at the failure of the third attempt, never
\* after a successful open; after that the primary duration matching and mux
\* do not run.
C16_ThreeLoadsThenFallback == [][LoadStep]_vars

\* C16 witness: all three attempts failed (4 seconds of waiting between
\* them), the fallback merged the audio and the request completed without
\* the primary matching having set a target.
C16_Witness ==
  /\ pc = "done"
  /\ load_attempt = max_retries - 1
  /\ target_duration = 0
  /\ fs["final"].kind = "muxed"


\* The errors add_audio_to_video and _add_audio_with_ffmpeg end with.
ReconcilerErrors == {"gTTS error", "write_videofile error",
                     "FFmpeg merge failed", "rename error"}

\* add_audio_to_video is running, or it has returned or raised.
InOrAfterReconciler ==
  \/ pc \in {"load"} \cup PrimaryPositions \cup FallbackPositions
  \/ pc \in {"return", "done"}
  \/ pc = "raised" /\ result.error \in ReconcilerErrors

\* C17: during and after reconciliation, on the primary and on the fallback
\* path, whether the steps succeed or fail, output/{output_name}.mp4 holds a
\* complete file: the pre-audio video or the muxed file, never nothing.
C17_CanonicalPathAlwaysComplete ==
  InOrAfterReconciler =>
    /\ exists("final")
    /\ fs["final"].kind \in {"video", "muxed"}
    /\ fs["final"].size >= MinValidSize


\* add_audio_to_video has returned or raised.
ReconcilerLeft ==
  \/ pc \in {"return", "done"}
  \/ pc = "raised" /\ result.error \in ReconcilerErrors

\* C18: whichever way the reconciler is left (primary success, mux failure,
\* synthesis failure, fallback success, FFmpeg failure), neither the
\* synthesized temp audio nor the muxer's temp output file exists any more.
C18_TempFilesGoneOnEveryExit ==
  ReconcilerLeft => ~ exists("temp_audio") /\ ~ exists("temp_output")


\* The text the user gave: data['text'] of the request, or the user_prompt
\* argument of a direct call of generate_video.
Malformed ==
  IF apc = "idle"
  THEN strip(topic) = << >> \/ Len(strip(topic)) < MinTextLength
  ELSE \/ data.kind \in {"null", "no_text"}
       \/ strip(data.text) = << >>
       \/ Len(strip(data.text)) < MinTextLength

\* No generate_content call, no manim subprocess, no gTTS call so far.
NoCollaboratorInvoked ==
  /\ pc \in {"idle", "detect", "elaborate"}
  /\ llm_last.kind = "none"
  /\ manim.runs = 0
  /\ ~ exists("temp_audio")

\* C19: for a request whose text is missing, empty or whitespace-only after
\* trimming, or shorter than 10 characters, no LLM call, no renderer
\* subprocess and no speech synthesis is ever made and no status entry is
\* created, through the HTTP endpoint and through generate_video alike.
C19_MalformedInputRejected ==
  Malformed => NoCollaboratorInvoked /\ DOMAIN generation_status = {}

\* The part of C19 that concerns the endpoint: a malformed request is
\* answered with 400 and nothing else happens.
HttpMalformedRejected ==
  apc # "idle" /\ Malformed =>
    /\ NoCollaboratorInvoked
    /\ DOMAIN generation_status = {}
    /\ pc = "idle"
    /\ apc = "responded" => http = 400


\* The lines of the source extract_narration was given.
SourceLines == split(code, "\n")

\* The remainder of a marker line after its (first) marker, whitespace- and
\* quote-stripped.
RemainderAfterMarker(line) ==
  LET i == CHOOSE k \in DOMAIN line :
             line[k] = Marker /\ \A j \in 1..(k - 1) : line[j] # Marker
  IN  strip_quotes(strip(SubSeq(line, i + 1, Len(line))))

\* The remainders of the marker lines, in source order.
RECURSIVE Remainders(_)
Remainders(lines) ==
  IF lines = << >> THEN << >>
  ELSE (IF HasMarker(Head(lines))
        THEN << RemainderAfterMarker(Head(lines)) >> ELSE << >>)
       \o Remainders(Tail(lines))

\* C20: extract_narration returns the remainders of all marker lines
\* (whitespace- and quote-stripped) joined with one space in source order,
\* or the default sentence when the source has no marker line; the result
\* is never empty.
C20_NarrationOfMarkerLines ==
  spc = "extracted" =>
    /\ narration = IF \E i \in DOMAIN SourceLines : HasMarker(SourceLines[i])
                   THEN join(<<" ">>, Remainders(SourceLines))
                   ELSE DefaultNarration
    /\ narration # << >>

\* What holds of every source: the result is never empty, and it is the
\* default sentence when no line has the marker.
NarrationNeverEmpty ==
  spc = "extracted" =>
    /\ narration # << >>
    /\ (\A i \in DOMAIN SourceLines : ~ HasMarker(SourceLines[i])) =>
         narration = DefaultNarration


(***************************************************************************)
(* Several jobs served at the same time by the one generator.  app.py      *)
(* creates a single ManimAIGenerator (lines 20-27) and every request       *)
(* handler calls its generate_video (line 73); the server of line 145      *)
(* serves each request on a thread of its own.  execute_manim writes the   *)
(* source of every job to the same file, <tmp>/manim_ai/scene.py (lines    *)
(* 567 and 582-583), and hands that path to manim (lines 604, 613); there  *)
(* is no lock.  A job is identified by its number; so is its source.       *)
(***************************************************************************)
NumJobs == 2

Jobs == 1..NumJobs

InitJobs ==
  /\ jpc = [j \in Jobs |-> "idle"]
  /\ scene_file = 0
  /\ loaded = [j \in Jobs |-> 0]
  /\ rendered_file = 0
  /\ copied = [j \in Jobs |-> 0]
  /\ IdleDetect /\ IdleReconcile /\ IdleLocate /\ IdleSanitize
  /\ IdlePipeline /\ IdleApi

JobsRest ==
  << detectVars, reconVars, locateVars, fixVars, pipeVars, apiVars >>

JobFiles == << rendered_file, copied >>

\* app.py line 73 and generate_video lines 851-866: the handler of job j has
\* called generate_video and the source of the job has been generated.
JobGenerates(j) ==
  /\ jpc[j] = "idle"
  /\ jpc' = [jpc EXCEPT ![j] = "generated"]
  /\ UNCHANGED << scene_file, loaded, JobFiles, JobsRest >>

\* Lines 582-583: code_file.write_text(code) on the one scratch path.
JobWritesScene(j) ==
  /\ jpc[j] = "generated"
  /\ scene_file' = j
  /\ jpc' = [jpc EXCEPT ![j] = "written"]
  /\ UNCHANGED << loaded, JobFiles, JobsRest >>

\* Line 613: subprocess.run starts manim on str(code_file).
JobStartsRenderer(j) ==
  /\ jpc[j] = "written"
  /\ jpc' = [jpc EXCEPT ![j] = "rendering"]
  /\ UNCHANGED << scene_file, loaded, JobFiles, JobsRest >>

\* The manim process of job j opens the file it was given (line 604) and
\* renders what it finds there.
JobRendererLoads(j) ==
  /\ jpc[j] = "rendering"
  /\ loaded' = [loaded EXCEPT ![j] = scene_file]
  /\ jpc' = [jpc EXCEPT ![j] = "loaded"]
  /\ UNCHANGED << scene_file, JobFiles, JobsRest >>

\* Lines 613-619: the manim process of job j has written the video of the
\* scene it loaded under --media_dir (line 601), at the path manim derives
\* from the names scene.py and EducationScene (lines 582, 605), the same for
\* every job; it exits with status 0 and subprocess.run returns.
JobRendererExits(j) ==
  /\ jpc[j] = "loaded"
  /\ rendered_file' = loaded[j]
  /\ jpc' = [jpc EXCEPT ![j] = "exited"]
  /\ UNCHANGED << scene_file, loaded, copied, JobsRest >>

\* Lines 635-673: the scan finds the rendered file, which is recent, and
\* copies it to the canonical path of job j (output_name holds the uuid of
\* the request, app.py line 73).
JobCopies(j) ==
  /\ jpc[j] = "exited"
  /\ rendered_file # 0
  /\ copied' = [copied EXCEPT ![j] = rendered_file]
  /\ jpc' = [jpc EXCEPT ![j] = "copied"]
  /\ UNCHANGED << scene_file, loaded, rendered_file, JobsRest >>

NextJobs ==
  \E j \in Jobs :
    \/ JobGenerates(j)
    \/ JobWritesScene(j)
    \/ JobStartsRenderer(j)
    \/ JobRendererLoads(j)
    \/ JobRendererExits(j)
    \/ JobCopies(j)

SpecJobs == InitJobs /\ [][NextJobs]_vars

\* Job j has written its source to the scratch path and its renderer has
\* not exited yet.
UsesScratch(j) == jpc[j] \in {"written", "rendering", "loaded"}

\* C21: between the moment a job writes its source to the scratch path and
\* the moment its renderer exits, no other job writes to that scratch path.
C21_ScratchStep ==
  \A j \in Jobs :
    UsesScratch(j) => \A k \in Jobs \ {j} : ~JobWritesScene(k)

C21_ScratchNotShared == [][C21_ScratchStep]_vars

\* What the overwrite leads to: a renderer that loads the source of another
\* job.  This state is reachable.
RendersOwnSource ==
  \A j \in Jobs : jpc[j] \in {"loaded", "exited", "copied"} => loaded[j] = j


\* The renderer has exited with status 0 and the scan found no recent .mp4.
NothingRecent == pc = "select" /\ recent_videos = << >>

NotFoundRaised ==
  result.status = "raised" /\ result.error = "No recent video file found"

\* C22: when the renderer exits with status 0 and no .mp4 of either tree is
\* within the recency window, the locate step raises an error whose message
\* gives the number of .mp4 files that were scanned; nothing is copied to or
\* changed at the canonical path, and neither the renderer nor the scan runs
\* again.
C22_NotFoundStep ==
  /\ NothingRecent =>
       /\ manim.ended = "zero"
       /\ pc' = "raised"
       /\ result'.status = "raised"
       /\ result'.error = "No recent video file found"
       /\ result'.checked = Cardinality(Mp4Files)
       /\ fs' = fs
       /\ ~ exists("final")
  /\ NotFoundRaised =>
       /\ manim' = manim
       /\ video_files' = video_files
       /\ fs' = fs
       /\ pc' = "raised"

C22_NotFoundIsFatal == [][C22_NotFoundStep]_vars

\* The scan looked at a file of an earlier job, too old to count, and the
\* request has failed with that file counted in the message.
C22_Witness ==
  /\ pc = "raised"
  /\ NotFoundRaised
  /\ result.checked = 1
  /\ manim = [runs |-> 1, ended |-> "zero", stderr |-> ""]
  /\ ~ exists("final")


\* execute_manim has returned the canonical path and generate_video holds
\* it, before add_audio_to_video has touched the file.
ExecuteManimReturned == pc \in {"narrate", "check_video"}

\* C23 as stated: the canonical path is returned only for a copy whose size
\* exceeds 1000 bytes.
C23_AsStated ==
  ExecuteManimReturned =>
    exists("final") /\ fs["final"].size > MinValidSize

\* C23: execute_manim returns only the canonical path, and only when after
\* the copy the file exists and has at least 1000 bytes; a smaller copy ends
\* the request with the error "Copied file is invalid" and never reaches
\* add_audio_to_video.
C23_ValidationStep ==
  /\ pc = "validate" =>
       IF exists("final") /\ fs["final"].size >= MinValidSize
       THEN pc' = "narrate" /\ fs' = fs /\ result' = result
       ELSE /\ pc' = "raised"
            /\ result' = Raise("Copied file is invalid")
            /\ fs' = fs
  /\ pc' = "narrate" => pc = "validate"
  /\ ExecuteManimReturned' =>
       /\ exists("final")'
       /\ fs'["final"].size >= MinValidSize
       /\ fs'["final"].tree = "output"
       /\ fs'["final"].kind = "video"

C23_ValidatedCopyOnly == [][C23_ValidationStep]_vars

\* A copy of exactly 1000 bytes has been returned by execute_manim.
C23_Witness ==
  /\ pc = "narrate"
  /\ exists("final")
  /\ fs["final"].size = MinValidSize


\* write_videofile was called and left no muxed file behind.
MuxFailed == pc = "mux" /\ fs'["temp_output"] = Absent

MuxErrorRaised ==
  result.status = "raised" /\ result.error = "write_videofile error"

\* C24: when writing the muxed file fails on the primary path the error
\* reaches the caller; the FFmpeg fallback is not started, the mux is not
\* run again, and the canonical path still holds the pre-audio video,
\* unchanged.
C24_MuxStep ==
  /\ MuxFailed =>
       /\ pc' = "raised"
       /\ result' = Raise("write_videofile error")
       /\ fs'["final"] = fs["final"]
       /\ fs["final"].kind = "video"
       /\ fs["final"].sound = 0
  /\ pc = "mux" => pc' \notin FallbackPositions \cup {"mux"}
  /\ MuxErrorRaised => pc' = "raised" /\ fs' = fs /\ result' = result

C24_MuxFailureIsFatal == [][C24_MuxStep]_vars

\* The mux has failed: the request has ended with its error and the
\* canonical path holds the silent video the renderer made.
C24_Witness ==
  /\ pc = "raised"
  /\ MuxErrorRaised
  /\ exists("final")
  /\ fs["final"].kind = "video"
  /\ fs["final"].sound = 0
  /\ ~ exists("temp_output")


\* The seconds slept by the step just taken.
Waited == clock' - clock

\* C25 as stated: every rate-limited call of an invocation is followed by a
\* wait, of 2, 4 and 8 seconds for the first, second and third call, the
\* third wait coming before the invocation gives up.
C25_AsStatedStep ==
  (pc \in LlmStages /\ RateLimitedNow) =>
    /\ llm_attempt = 0 => Waited = 2
    /\ llm_attempt = 1 => Waited = 4
    /\ llm_attempt = 2 => Waited = 8

C25_BackoffStep ==
  /\ (pc \in LlmStages /\ RateLimitedNow) =>
       /\ llm_attempt = 0 => Waited = 2 /\ pc' = pc
       /\ llm_attempt = 1 => Waited = 4 /\ pc' = pc
       /\ llm_attempt = 2 => Waited = 0 /\ pc' = "raised"
       /\ llm_attempt \in 0..2
  /\ (pc \in LlmStages /\ ~ RateLimitedNow) => Waited = 0

Located == pc = "validate" /\ exists("final")

\* C26: with jobs run one after the other over the same scratch and output
\* trees, the file the locate step copies to a job's canonical path was
\* written by that job's own renderer run, never by an earlier job, also
\* when the renderer exits with status 0 without writing a .mp4 and the
\* earlier job ended less than 60 seconds before the scan.
C26_CopyIsOwnRendering ==
  Located => fs["final"].job = "this"

\* What the recency filter does keep out: a file whose age at the scan is
\* RecencyWindow seconds or more.
StaleLeftoverNeverCopied ==
  Located => current_time - fs["final"].mtime < RecencyWindow


TimedOut ==
  result.status = "raised" /\ result.error = "Manim execution timed out"

\* C27: when the renderer exceeds its wall-clock bound the request fails
\* with a timeout error whose reported bound is the bound that was applied
\* to the subprocess: 60 seconds for a 2D job, 120 seconds for a 3D job.
C27_ReportedBoundIsApplied ==
  TimedOut =>
    /\ pc = "raised"
    /\ result.applied = (IF use_3d THEN 120 ELSE 60)
    /\ result.reported = result.applied

\* The part that holds: the bound applied is 60 seconds for 2D and 120 for
\* 3D, the clock has advanced by it, and the request has failed.
AppliedBoundByMode ==
  TimedOut =>
    /\ pc = "raised"
    /\ manim.ended = "timeout"
    /\ result.applied = (IF use_3d THEN 120 ELSE 60)
    /\ result.reported = result.applied + 60


\* generate_video has returned and the canonical path holds the merged file.
Merged == pc = "done" /\ fs["final"].kind = "muxed"

\* The merge was made by _add_audio_with_ffmpeg, which computes no target.
ByFallback == target_duration = 0

\* C28: the duration of the final file does not depend on the merge path:
\* the FFmpeg fallback yields, like the primary path, the policy target for
\* the video duration Dv (60 if Dv > 60, 30 if Dv < 30, else Dv), so the
\* final duration lies within [30, 60] seconds on both paths.
C28_SameDurationOnBothPaths ==
  Merged =>
    /\ fs["final"].duration = TargetDuration(Dv)
    /\ fs["final"].duration >= min_duration
    /\ fs["final"].duration <= max_duration

\* What each path does yield: the policy target on the primary path, the
\* longer of the two durations on the fallback path.
DurationByPath ==
  Merged =>
    IF ByFallback
    THEN fs["final"].duration = Max2(Dv, Da)
    ELSE fs["final"].duration = TargetDuration(Dv)


\* The handler of POST /api/generate has answered.
Responded == apc = "responded"

\* C29: once the handler of POST /api/generate has answered, with success
\* or with a 500 error, no entry of generation_status created by the request
\* still has the status 'processing'.
C29_NoEntryLeftProcessing ==
  Responded =>
    \A id \in DOMAIN generation_status :
      generation_status[id].status # "processing"

\* What holds: an answer of 200 leaves the entry 'completed'; an answer of
\* 400 leaves no entry; an answer of 500 leaves the entry 'processing'.
EntryByAnswer ==
  Responded =>
    /\ http = 200 => generation_status[video_id].status = "completed"
    /\ http = 400 => generation_status = << >>
    /\ http = 500 => generation_status[video_id].status = "processing"


\* The step is an answer of download_video.
Downloaded == download' # download

\* The step stores an entry 'completed'.
Completes ==
  /\ generation_status' # generation_status
  /\ video_id \in DOMAIN generation_status'
  /\ generation_status'[video_id].status = "completed"

\* C30: the download endpoint serves a file only for an id whose entry is
\* 'completed', and an entry becomes 'completed' only after generate_video
\* has returned (renderer, locate and audio merge done); an unknown id is
\* answered 404, and an id still 'processing' is answered 400, also when
\* its pipeline has failed after the pre-audio video was written.
C30_DownloadStep ==
  /\ Downloaded =>
       /\ download'.id \notin DOMAIN generation_status =>
            download'.code = 404 /\ download'.file = Absent
       /\ ( /\ download'.id \in DOMAIN generation_status
            /\ generation_status[download'.id].status = "processing" ) =>
            download'.code = 400 /\ download'.file = Absent
       /\ download'.code = 200 =>
            /\ download'.id \in DOMAIN generation_status
            /\ generation_status[download'.id].status = "completed"
            /\ pc = "done"
            /\ download'.file = fs["final"]
            /\ download'.file.kind = "muxed"
       /\ download'.code \in {200, 400, 404}
  /\ Completes =>
       /\ pc = "done"
       /\ result.status = "returned"
       /\ manim.ended = "zero"
       /\ fs["final"].kind = "muxed"

C30_OnlyCompletedServed == [][C30_DownloadStep]_vars

\* The pipeline failed after the silent video was copied to the canonical
\* path; the handler answered 500 and a download of the id was refused.
C30_Witness ==
  /\ apc = "responded" /\ http = 500
  /\ pc = "raised"
  /\ exists("final") /\ fs["final"].kind = "video"
  /\ download = [id |-> video_id, code |-> 400, file |-> Absent]

\* A finished job's file has been served.
Served ==
  /\ download.code = 200
  /\ download.file.kind = "muxed"
  /\ generation_status[video_id].status = "completed"

=============================================================================
